---- MODULE Spec2Model ----
(***************************************************************************)
(* A model of the recipe parser of down-to-cook: the AST cursor and the    *)
(* grammar helpers (recipe/md_parser.rs), the units and quantities         *)
(* (recipe/unit.rs), the ingredient grammar and the ingredients section    *)
(* (recipe/ingredients.rs), the instructions section                       *)
(* (recipe/instructions.rs) and the document assembly (recipe.rs).         *)
(*                                                                         *)
(* Texts are sequences of one-character strings.  Rust indexes from 0; a   *)
(* cursor index idx therefore counts the nodes already consumed, and the   *)
(* node "at the cursor" is nodes[idx + 1].                                 *)
(***************************************************************************)
EXTENDS Integers, Sequences, FiniteSets, TLC

VARIABLES
    nodes,      \* ASTConsumer.nodes: the borrowed, immutable node sequence
    idx,        \* ASTConsumer.idx
    consumed,   \* history: the nodes returned by consuming calls, in call order
    last,       \* history: the last cursor call, its argument and what it returned
    text,       \* the text of one list item, the input of the ingredient grammar
    ingr,       \* what Ingredient::from_str(text) returned, once called
    opts,       \* what IngredientOptions::from_str(text) returned, once called
    parsed      \* what the last parser called on the nodes returned

vars == <<nodes, idx, consumed, last, text, ingr, opts, parsed>>

----------------------------------------------------------------------------
(* Bounds of the model.                                                    *)

MaxNodes == 4

MaxDepth == 3

\* Texts over the whole alphabet of the ingredient grammar, up to this length.
MaxTextLen == 4

\* Quantity segments of a composed ingredient text.
MaxSegs == 3

\* Alternatives of a composed options text.
MaxAlts == 2

\* Top-level nodes of a document taken from all the kinds of nodes.
MaxTop == 3

\* Nodes of the ingredients section of a composed recipe.
MaxBody == 1

\* Nodes after the "Steps" heading of a composed recipe.
MaxTail == 1

----------------------------------------------------------------------------
(* Sequences.                                                              *)

\* s[a..b] of a Rust slice, with 1-based inclusive bounds; empty when b < a.
Slice(s, a, b) == IF b < a THEN <<>> ELSE SubSeq(s, a, b)

SeqsUpTo(S, n) == UNION {[1..k -> S] : k \in 0..n}

----------------------------------------------------------------------------
(* Markdown AST nodes (markdown::mdast::Node).  Every node is a record of  *)
(* the same shape; pos is the node's position, <<>> when it has none.      *)

NoPos == <<>>

Node(kind, depth, children, value) ==
    [kind |-> kind, depth |-> depth, children |-> children, value |-> value, pos |-> NoPos]

Heading(d, cs) == Node("Heading", d, cs, <<>>)
Text(v) == Node("Text", 0, <<>>, v)
Paragraph(cs) == Node("Paragraph", 0, cs, <<>>)
List(cs) == Node("List", 0, cs, <<>>)
ListItem(cs) == Node("ListItem", 0, cs, <<>>)
Emphasis(cs) == Node("Emphasis", 0, cs, <<>>)
Strong(cs) == Node("Strong", 0, cs, <<>>)
ThematicBreak == Node("ThematicBreak", 0, <<>>, <<>>)

\* The positions markdown::to_mdast gives: every node of a tree gets its own,
\* here the path from the root.
RECURSIVE PlaceAll(_, _)
Place(n, path) ==
    [n EXCEPT !.pos = path, !.children = PlaceAll(n.children, path)]
PlaceAll(ns, path) ==
    [i \in 1..Len(ns) |-> Place(ns[i], Append(path, i))]

----------------------------------------------------------------------------
(* Texts (&str): sequences of characters, each a one-element string.  DEG  *)
(* stands for the degree sign.                                             *)

DEG == "deg"

Lower == <<"a", "b", "c", "d", "e", "f", "g", "h", "i", "j", "k", "l", "m",
           "n", "o", "p", "q", "r", "s", "t", "u", "v", "w", "x", "y", "z">>

Upper == <<"A", "B", "C", "D", "E", "F", "G", "H", "I", "J", "K", "L", "M",
           "N", "O", "P", "Q", "R", "S", "T", "U", "V", "W", "X", "Y", "Z">>

Digits == <<"0", "1", "2", "3", "4", "5", "6", "7", "8", "9">>

Range(f) == {f[i] : i \in DOMAIN f}

\* let v = ...; body
LetIn(v, Body(_)) == Body(v)

Min(S) == CHOOSE a \in S : \A b \in S : a <= b

Max(S) == CHOOSE a \in S : \A b \in S : a >= b

\* The 0-based offset of the first of the 1-based positions S, -1 when there
\* is none (Option<usize>, None as -1).
FirstOffset(S) == IF S = {} THEN -1 ELSE Min(S) - 1

\* char::is_alphabetic
IsAlphabetic(c) == c \in Range(Lower) \cup Range(Upper)

\* char::is_whitespace
IsWhitespace(c) == c \in {" ", "\t"}

\* char::to_lowercase
LowerChar(c) ==
    IF c \in Range(Upper) THEN Lower[CHOOSE i \in 1..Len(Upper) : Upper[i] = c] ELSE c

\* str::to_lowercase
to_lowercase(s) == [i \in 1..Len(s) |-> LowerChar(s[i])]

\* str::trim
trim(s) ==
    LetIn({i \in 1..Len(s) : ~IsWhitespace(s[i])},
          LAMBDA keep : IF keep = {} THEN <<>> ELSE SubSeq(s, Min(keep), Max(keep)))

\* str::find(char): the 0-based offset of the first occurrence, -1 for None.
find(s, c) == FirstOffset({i \in 1..Len(s) : s[i] = c})

\* str::contains(char)
contains(s, c) == \E i \in 1..Len(s) : s[i] = c

\* str::ends_with
ends_with(s, c) == Len(s) > 0 /\ s[Len(s)] = c

\* str::split(char): always at least one piece, the pieces between the
\* separators, empty pieces included.
RECURSIVE split(_, _)
split(s, c) ==
    LetIn(find(s, c),
          LAMBDA k : IF k < 0 THEN <<s>>
                     ELSE <<Slice(s, 1, k)>> \o split(Slice(s, k + 2, Len(s)), c))

\* Small numbers as they are formatted into messages.
Num(n) == IF n \in 0..9 THEN Digits[n + 1] ELSE "many"

----------------------------------------------------------------------------
(* Amounts (f32) are modelled as exact reduced fractions num/den: the      *)
(* rounding of f32 is left out.                                            *)

RECURSIVE Gcd(_, _)
Gcd(a, b) == IF b = 0 THEN a ELSE Gcd(b, a % b)

Abs(a) == IF a < 0 THEN -a ELSE a

Frac(n, d) ==
    IF n = 0 THEN [num |-> 0, den |-> 1]
    ELSE LetIn(Gcd(Abs(n), d), LAMBDA g : [num |-> n \div g, den |-> d \div g])

RECURSIVE Pow10(_)
Pow10(k) == IF k = 0 THEN 1 ELSE 10 * Pow10(k - 1)

DigitVal(c) == (CHOOSE i \in 1..10 : Digits[i] = c) - 1

RECURSIVE DigitsVal(_)
DigitsVal(ds) ==
    IF ds = <<>> THEN 0 ELSE 10 * DigitsVal(Slice(ds, 1, Len(ds) - 1)) + DigitVal(ds[Len(ds)])

AllDigits(s) == \A i \in 1..Len(s) : s[i] \in Range(Digits)

NoAmount == [num |-> 0, den |-> 1]

\* The digits before and after the decimal point, and the sign.
ParseDecimal(int, frac, negative) ==
    IF AllDigits(int) /\ AllDigits(frac) /\ Len(int) + Len(frac) > 0
    THEN [ok |-> TRUE,
          val |-> Frac((IF negative THEN -1 ELSE 1) * DigitsVal(int \o frac), Pow10(Len(frac))),
          err |-> ""]
    ELSE [ok |-> FALSE, val |-> NoAmount, err |-> "invalid float literal"]

\* The text after the sign, cut at its first '.'.
ParseUnsigned(body, negative) ==
    LetIn(find(body, "."),
          LAMBDA dot : IF dot < 0 THEN ParseDecimal(body, <<>>, negative)
                       ELSE ParseDecimal(Slice(body, 1, dot),
                                         Slice(body, dot + 2, Len(body)), negative))

\* str::parse::<f32> on a text without letters (every caller cuts the text
\* at its first alphabetic character, so "inf", "nan" and exponents never get
\* here): [sign] (digits | digits '.' [digits] | [digits] '.' digits).
\* The error is ParseFloatError's kind, as it is displayed.
parse_f32(s) ==
    IF s = <<>>
    THEN [ok |-> FALSE, val |-> NoAmount, err |-> "cannot parse float from empty string"]
    ELSE IF s[1] \in {"+", "-"} THEN ParseUnsigned(Tail(s), s[1] = "-")
    ELSE ParseUnsigned(s, FALSE)

----------------------------------------------------------------------------
(* Units (recipe/unit.rs).  A unit is its family and its variant; Custom   *)
(* carries the token.                                                      *)

UnitOf(family, unit) == [family |-> family, unit |-> unit, custom |-> <<>>]

Custom(token) == [family |-> "Custom", unit |-> "Custom", custom |-> token]

NominalUnit == UnitOf("Nominal", "Nominal")

\* impl FromStr for Mass: the match arms, token |-> unit.
MassTable ==
    {<<<<"g">>, "Gram">>,
     <<<<"k", "g">>, "Kilogram">>,
     <<<<"o", "z">>, "Ounce">>,
     <<<<"l", "b", "s">>, "Pound">>}

\* A table of Volume that reads "oz" as the fluid ounce.
MutVolumeTable ==
    {<<<<"m", "l">>, "Milliliter">>,
     <<<<"c", "l">>, "Centiliter">>,
     <<<<"l">>, "Liter">>,
     <<<<"t", "s", "p">>, "Teaspoon">>,
     <<<<"t", "b", "s", "p">>, "Tablespoon">>,
     <<<<"o", "z">>, "FluidOunce">>,
     <<<<"f", "l", " ", "o", "z">>, "FluidOunce">>,
     <<<<"f", "l", ".", " ", "o", "z", ".">>, "FluidOunce">>,
     <<<<"c", "u", "p">>, "Cup">>,
     <<<<"g", "a", "l">>, "Gallon">>}

\* impl FromStr for Volume: the match arms, token |-> unit.
VolumeTable ==
    {<<<<"m", "l">>, "Milliliter">>,
     <<<<"c", "l">>, "Centiliter">>,
     <<<<"l">>, "Liter">>,
     <<<<"t", "s", "p">>, "Teaspoon">>,
     <<<<"t", "b", "s", "p">>, "Tablespoon">>,
     <<<<"f", "l", " ", "o", "z">>, "FluidOunce">>,
     <<<<"f", "l", ".", " ", "o", "z", ".">>, "FluidOunce">>,
     <<<<"c", "u", "p">>, "Cup">>,
     <<<<"g", "a", "l">>, "Gallon">>}

\* impl FromStr for Distance: the match arms, token |-> unit.
DistanceTable ==
    {<<<<"m", "m">>, "Millimeter">>,
     <<<<"c", "m">>, "Centimeter">>,
     <<<<"i", "n">>, "Inches">>}

\* impl FromStr for Temperature: the match arms, token |-> unit.
TemperatureTable ==
    {<<<<DEG, "c">>, "Celsius">>,
     <<<<"c">>, "Celsius">>,
     <<<<DEG, "f">>, "Farenheit">>,
     <<<<"f">>, "Farenheit">>}

\* impl FromStr for Time: the match arms, token |-> unit.
TimeTable ==
    {<<<<"s">>, "Second">>,
     <<<<"s", "e", "c">>, "Second">>,
     <<<<"s", "e", "c", ".">>, "Second">>,
     <<<<"s", "e", "c", "o", "n", "d">>, "Second">>,
     <<<<"s", "e", "c", "o", "n", "d", "s">>, "Second">>,
     <<<<"m", "i", "n">>, "Minute">>,
     <<<<"m", "i", "n", ".">>, "Minute">>,
     <<<<"m", "i", "n", "u", "t", "e">>, "Minute">>,
     <<<<"m", "i", "n", "u", "t", "e", "s">>, "Minute">>,
     <<<<"h">>, "Hour">>,
     <<<<"h", "o", "u", "r">>, "Hour">>,
     <<<<"h", "o", "u", "r", "s">>, "Hour">>}

NoFamilyUnit == [ok |-> FALSE, unit |-> "none"]

\* A family's from_str: the lower-cased token looked up in the family's
\* match arms.
Lookup(table, s) ==
    LetIn({row \in table : row[1] = to_lowercase(s)},
          LAMBDA hits : IF hits = {} THEN NoFamilyUnit
                        ELSE [ok |-> TRUE, unit |-> (CHOOSE row \in hits : TRUE)[2]])

FamilyTable(family) ==
    CASE family = "Mass" -> MassTable
      [] family = "Volume" -> VolumeTable
      [] family = "Distance" -> DistanceTable
      [] family = "Temperature" -> TemperatureTable
      [] family = "Time" -> TimeTable
      [] OTHER -> {}

\* Nominal::from_str accepts the empty token only; the other families look
\* the token up.
Family_from_str(family, s) ==
    IF family = "Nominal"
    THEN IF s = <<>> THEN [ok |-> TRUE, unit |-> "Nominal"] ELSE NoFamilyUnit
    ELSE Lookup(FamilyTable(family), s)

\* The order in which Unit::from_str tries the families.
FamilyOrder == <<"Nominal", "Mass", "Volume", "Distance", "Temperature", "Time">>

\* Unit::from_str: the first family that accepts the token.
Unit_from_str(s) ==
    LetIn({i \in 1..Len(FamilyOrder) : Family_from_str(FamilyOrder[i], s).ok},
          LAMBDA hits :
              IF hits = {} THEN [ok |-> FALSE, unit |-> NominalUnit]
              ELSE [ok |-> TRUE,
                    unit |-> UnitOf(FamilyOrder[Min(hits)],
                                    Family_from_str(FamilyOrder[Min(hits)], s).unit)])

\* A from that keeps the lower-cased token in Custom.
MutUnit_from(s) ==
    LetIn(Unit_from_str(s), LAMBDA r : IF r.ok THEN r.unit ELSE Custom(to_lowercase(s)))

\* impl From<&str> for Unit
Unit_from(s) == LetIn(Unit_from_str(s), LAMBDA r : IF r.ok THEN r.unit ELSE Custom(s))

----------------------------------------------------------------------------
(* Quantity (recipe/unit.rs).                                              *)

f_split_quantity(c) == IsAlphabetic(c) \/ c = DEG

NoQuantity == [unit |-> NominalUnit, amount |-> NoAmount]

\* str::find(f_split_quantity): 0-based, -1 for None.
FindSplit(s) == FirstOffset({i \in 1..Len(s) : f_split_quantity(s[i])})

\* The Quantity of a unit and a parsed amount; a ParseFloatError is returned
\* as it is.
QuantityOfParts(unit, amount) ==
    IF amount.ok
    THEN [ok |-> TRUE, val |-> [unit |-> unit, amount |-> amount.val], err |-> ""]
    ELSE [ok |-> FALSE, val |-> NoQuantity, err |-> amount.err]

\* A from_str that does not trim the unit.
MutQuantity_from_str(s) ==
    LetIn(FindSplit(s),
          LAMBDA k : IF k >= 0
                     THEN QuantityOfParts(Unit_from(Slice(s, k + 1, Len(s))),
                                          parse_f32(trim(Slice(s, 1, k))))
                     ELSE QuantityOfParts(NominalUnit, parse_f32(trim(s))))

\* impl FromStr for Quantity
Quantity_from_str(s) ==
    LetIn(FindSplit(s),
          LAMBDA k : IF k >= 0
                     THEN QuantityOfParts(Unit_from(trim(Slice(s, k + 1, Len(s)))),
                                          parse_f32(trim(Slice(s, 1, k))))
                     ELSE QuantityOfParts(NominalUnit, parse_f32(trim(s))))

----------------------------------------------------------------------------
(* sanitize (recipe/unit.rs).  An FnUnit is q |-> (q - sub) * num / den.   *)

FnUnit(sub, num, den) == [sub |-> sub, num |-> num, den |-> den]

\* |q| q
FnIdentity == FnUnit(0, 1, 1)

\* fn_unit(self.amount)
ApplyFn(fn, q) == Frac((q.num - fn.sub * q.den) * fn.num, q.den * fn.den)

Sanitized(unit, fn) == [unit |-> unit, fn |-> fn]

\* The default of UnitTrait::sanitize, that of Nominal and Time.
UnitTrait_sanitize(unit) == Sanitized(unit, FnIdentity)

\* A sanitize of Mass without the arm of Pound.
MutMass_sanitize(unit) ==
    CASE unit = "Ounce" -> Sanitized("Gram", FnUnit(0, 28, 1))
      [] OTHER -> Sanitized(unit, FnIdentity)

Mass_sanitize(unit) ==
    CASE unit = "Ounce" -> Sanitized("Gram", FnUnit(0, 28, 1))
      [] unit = "Pound" -> Sanitized("Gram", FnUnit(0, 450, 1))
      [] OTHER -> Sanitized(unit, FnIdentity)

\* 3.785 is 3785/1000.
Volume_sanitize(unit) ==
    CASE unit = "Teaspoon" -> Sanitized("Milliliter", FnUnit(0, 5, 1))
      [] unit = "Tablespoon" -> Sanitized("Milliliter", FnUnit(0, 15, 1))
      [] unit = "Cup" -> Sanitized("Milliliter", FnUnit(0, 240, 1))
      [] unit = "FluidOunce" -> Sanitized("Milliliter", FnUnit(0, 29, 1))
      [] unit = "Gallon" -> Sanitized("Liter", FnUnit(0, 3785, 1000))
      [] OTHER -> Sanitized(unit, FnIdentity)

\* A sanitize with 2 for 2.5.
MutDistance_sanitize(unit) ==
    CASE unit = "Inches" -> Sanitized("Centimeter", FnUnit(0, 2, 1))
      [] OTHER -> Sanitized(unit, FnIdentity)

\* 2.5 is 5/2.
Distance_sanitize(unit) ==
    CASE unit = "Inches" -> Sanitized("Centimeter", FnUnit(0, 5, 2))
      [] OTHER -> Sanitized(unit, FnIdentity)

\* A sanitize that keeps the unit and converts the amount.
MutTemperature_sanitize(unit) ==
    CASE unit = "Farenheit" -> Sanitized("Farenheit", FnUnit(32, 5, 9))
      [] OTHER -> Sanitized(unit, FnIdentity)

Temperature_sanitize(unit) ==
    CASE unit = "Farenheit" -> Sanitized("Celsius", FnUnit(32, 5, 9))
      [] OTHER -> Sanitized(unit, FnIdentity)

\* T::sanitize, T the family of the unit.
Family_sanitize(family, unit) ==
    CASE family = "Mass" -> Mass_sanitize(unit)
      [] family = "Volume" -> Volume_sanitize(unit)
      [] family = "Distance" -> Distance_sanitize(unit)
      [] family = "Temperature" -> Temperature_sanitize(unit)
      [] OTHER -> UnitTrait_sanitize(unit)

\* Unit::sanitize
Unit_sanitize(unit) ==
    IF unit.family = "Custom" THEN Sanitized(unit, FnIdentity)
    ELSE LetIn(Family_sanitize(unit.family, unit.unit),
               LAMBDA r : Sanitized(UnitOf(unit.family, r.unit), r.fn))

\* Quantity::sanitize
Quantity_sanitize(q) ==
    LetIn(Unit_sanitize(q.unit),
          LAMBDA r : [unit |-> r.unit, amount |-> ApplyFn(r.fn, q.amount)])

\* QuantityOf<T>::sanitize, T the family of the unit.
QuantityOf_sanitize(family, q) ==
    LetIn(Family_sanitize(family, q.unit),
          LAMBDA r : [unit |-> r.unit, amount |-> ApplyFn(r.fn, q.amount)])

\* impl From<QuantityOf<T>> for Quantity
Quantity_from(family, value) ==
    [unit |-> UnitOf(family, value.unit), amount |-> value.amount]

----------------------------------------------------------------------------
(* MDError and results.                                                    *)

NoPlace == <<>>

NoError == [msg |-> <<>>, place |-> NoPlace]

\* A message is the sequence of its parts: the literal text of the format
\* string and the values formatted into it.
\* MDError::new(msg, Some(node)): the place is the node's position, if any.
MDErrorAt(msg, node) == [msg |-> msg, place |-> node.pos]

\* MDError::new(msg, None)
MDErrorNone(msg) == [msg |-> msg, place |-> NoPlace]

----------------------------------------------------------------------------
(* ASTConsumer.                                                            *)

IsHeadingOfDepth(n, depth) == n.kind = "Heading" /\ n.depth = depth

\* A find that stops at a heading of any depth.
MutFindHeadingFrom(ns, i, depth) ==
    LET hits == {k \in 0..(Len(ns) - i - 1) : ns[i + k + 1].kind = "Heading"}
    IN  IF hits = {} THEN -1 ELSE CHOOSE k \in hits : \A m \in hits : k <= m

\* The offset elem.0 of consume_to_next_heading: the number of nodes between
\* the cursor and the first heading of the given depth at or after it, or -1
\* when find returns None.
FindHeadingFrom(ns, i, depth) ==
    LET hits == {k \in 0..(Len(ns) - i - 1) : IsHeadingOfDepth(ns[i + k + 1], depth)}
    IN  IF hits = {} THEN -1 ELSE CHOOSE k \in hits : \A m \in hits : k <= m

\* A consume_next that reports EOF but still moves the index.
MutConsumeNext(ns, i) ==
    IF i >= Len(ns)
    THEN [ok |-> FALSE, ret |-> <<>>, err |-> MDErrorNone(<<"EOF">>), idx |-> 0]
    ELSE [ok |-> TRUE, ret |-> <<ns[i + 1]>>, err |-> NoError, idx |-> i + 1]

\* consume_next: the call's outcome and the new index.
consume_next(ns, i) ==
    IF i = Len(ns)
    THEN [ok |-> FALSE, ret |-> <<>>, err |-> MDErrorNone(<<"EOF">>), idx |-> i]
    ELSE [ok |-> TRUE, ret |-> <<ns[i + 1]>>, err |-> NoError, idx |-> i + 1]

\* A consume_to_next_heading that takes the heading it finds too.
MutConsumeToNextHeading(ns, i, depth) ==
    IF i = Len(ns)
    THEN [ok |-> TRUE, ret |-> <<>>, err |-> NoError, idx |-> i]
    ELSE LET off == FindHeadingFrom(ns, i, depth)
         IN  IF off >= 0
             THEN [ok |-> TRUE, ret |-> Slice(ns, i + 1, i + off + 1), err |-> NoError,
                   idx |-> i + off + 1]
             ELSE [ok |-> TRUE, ret |-> Slice(ns, i + 1, Len(ns)), err |-> NoError,
                   idx |-> Len(ns)]

\* consume_to_next_heading: the slice returned and the new index.
consume_to_next_heading(ns, i, depth) ==
    IF i = Len(ns)
    THEN [ok |-> TRUE, ret |-> <<>>, err |-> NoError, idx |-> i]
    ELSE LET off == FindHeadingFrom(ns, i, depth)
         IN  IF off >= 0
             THEN [ok |-> TRUE, ret |-> Slice(ns, i + 1, i + off), err |-> NoError,
                   idx |-> i + off]
             ELSE [ok |-> TRUE, ret |-> Slice(ns, i + 1, Len(ns)), err |-> NoError,
                   idx |-> Len(ns)]

\* A get_remaining that consumes what it returns.
MutGetRemaining(ns, i) ==
    [ok |-> TRUE, ret |-> Slice(ns, i + 1, Len(ns)), err |-> NoError, idx |-> Len(ns)]

\* get_remaining: the slice returned; the index is left alone.
get_remaining(ns, i) ==
    IF i = Len(ns)
    THEN [ok |-> TRUE, ret |-> <<>>, err |-> NoError, idx |-> i]
    ELSE [ok |-> TRUE, ret |-> Slice(ns, i + 1, Len(ns)), err |-> NoError, idx |-> i]

----------------------------------------------------------------------------
(* Option<T>.                                                              *)

\* None carries a fixed value of the type.
Some(v) == [some |-> TRUE, v |-> v]
NoneText == [some |-> FALSE, v |-> <<>>]
NoneQuantity == [some |-> FALSE, v |-> NoQuantity]
NoneSeq == [some |-> FALSE, v |-> <<>>]

----------------------------------------------------------------------------
(* Results, and the helpers of recipe/md_parser.rs.                        *)

\* Result<T, MDError>: an Err carries the empty value.
Ok(v) == [ok |-> TRUE, val |-> v, err |-> NoError]
Err(e) == [ok |-> FALSE, val |-> <<>>, err |-> e]

\* The ? operator: an Err returns at once, an Ok goes on.
Try(r, Return(_), Then(_)) == IF ~r.ok THEN Return(r) ELSE Then(r)

\* A collect that keeps the last Err.
MutCollect(rs) ==
    LetIn({i \in 1..Len(rs) : ~rs[i].ok},
          LAMBDA bad : IF bad = {} THEN Ok([i \in 1..Len(rs) |-> rs[i].val])
                       ELSE Err(rs[Max(bad)].err))

\* Iterator::collect::<Result<Vec<T>, E>>() over the results of the items,
\* in order: the first Err, or all the values.  (The iterator stops at the
\* first Err; the parsers of the items are pure and total, so that parsing
\* the later items changes nothing.)
Collect(rs) ==
    LetIn({i \in 1..Len(rs) : ~rs[i].ok},
          LAMBDA bad : IF bad = {} THEN Ok([i \in 1..Len(rs) |-> rs[i].val])
                       ELSE Err(rs[Min(bad)].err))

\* Node::children() is Some for the kinds of nodes that are parents.
CanHaveChildren(node) ==
    node.kind \in {"Root", "Heading", "Paragraph", "List", "ListItem", "Emphasis", "Strong"}

\* expect_children: panics on a node that cannot have children.
expect_children(node, num) ==
    IF ~CanHaveChildren(node) THEN [ok |-> FALSE, panic |-> TRUE, err |-> NoError]
    ELSE IF Len(node.children) # num
    THEN [ok |-> FALSE, panic |-> FALSE,
          err |-> MDErrorAt(<<"expected node to have ", Num(num), " children, but got ",
                              Num(Len(node.children))>>, node)]
    ELSE [ok |-> TRUE, panic |-> FALSE, err |-> NoError]

\* A get_heading that accepts a heading whatever its text.
MutGetHeading(node, depth, name) ==
    IF node.kind # "Heading"
    THEN Err(MDErrorAt(<<"expected first node to be heading">>, node))
    ELSE IF node.depth # depth
    THEN Err(MDErrorAt(<<"expected heading at depth ", Num(depth), ", but got ",
                         Num(node.depth)>>, node))
    ELSE IF ~expect_children(node, 1).ok THEN Err(expect_children(node, 1).err)
    ELSE IF node.children[1].kind # "Text"
    THEN Err(MDErrorAt(<<"expected heading to have text child">>, node))
    ELSE Ok(node.children[1].value)

\* A get_heading that accepts a heading whatever its depth.
MutGetHeadingDepth(node, depth, name) ==
    IF node.kind # "Heading"
    THEN Err(MDErrorAt(<<"expected first node to be heading">>, node))
    ELSE IF ~expect_children(node, 1).ok THEN Err(expect_children(node, 1).err)
    ELSE IF node.children[1].kind # "Text"
    THEN Err(MDErrorAt(<<"expected heading to have text child">>, node))
    ELSE IF name.some /\ node.children[1].value # name.v
    THEN Err(MDErrorAt(<<"expected heading \"">> \o name.v \o <<"\", but got \"">>
                           \o node.children[1].value \o <<"\"">>, node.children[1]))
    ELSE Ok(node.children[1].value)

\* get_heading: name is the Option of the requested text.
get_heading(node, depth, name) ==
    IF node.kind # "Heading"
    THEN Err(MDErrorAt(<<"expected first node to be heading">>, node))
    ELSE IF node.depth # depth
    THEN Err(MDErrorAt(<<"expected heading at depth ", Num(depth), ", but got ",
                         Num(node.depth)>>, node))
    ELSE IF ~expect_children(node, 1).ok THEN Err(expect_children(node, 1).err)
    ELSE IF node.children[1].kind # "Text"
    THEN Err(MDErrorAt(<<"expected heading to have text child">>, node))
    ELSE IF name.some /\ node.children[1].value # name.v
    THEN Err(MDErrorAt(<<"expected heading \"">> \o name.v \o <<"\", but got \"">>
                           \o node.children[1].value \o <<"\"">>, node.children[1]))
    ELSE Ok(node.children[1].value)

\* get_text_from_paragraph
get_text_from_paragraph(node) ==
    IF node.kind # "Paragraph" THEN Err(MDErrorAt(<<"expected paragraph">>, node))
    ELSE IF ~expect_children(node, 1).ok THEN Err(expect_children(node, 1).err)
    ELSE IF node.children[1].kind # "Text"
    THEN Err(MDErrorAt(<<"expected child to to be text">>, node.children[1]))
    ELSE Ok(node.children[1].value)

----------------------------------------------------------------------------
(* The ingredient grammar (recipe/ingredients.rs).                         *)

INFO_FORBIDDEN_CHARS == {"|", "(", ")"}

FORBIDDEN_CHARS == {",", "|", "/", "(", ")"}

\* CHARS.iter().any(|c| s.contains(*c))
ContainsAny(s, chars) == \E c \in chars : contains(s, c)

NoIngredient ==
    [name |-> <<>>, quantity |-> NoneQuantity, alt_quantities |-> NoneSeq, info |-> NoneText]

IngrOk(v) == [ok |-> TRUE, val |-> v, err |-> NoError]
IngrErr(e) == [ok |-> FALSE, val |-> NoIngredient, err |-> e]

InfoErr(t, e) == [ok |-> FALSE, info |-> NoneText, rest |-> t, err |-> e]

\* A check of the info that lets every character through.
MutCheckInfo(t, k, info) ==
    [ok |-> TRUE, info |-> Some(info), rest |-> Slice(t, 1, k), err |-> NoError]

\* Lines 95-102: the info must hold none of INFO_FORBIDDEN_CHARS; t is the
\* trimmed text and k the offset of its '('.
CheckInfo(t, k, info) ==
    IF ContainsAny(info, INFO_FORBIDDEN_CHARS)
    THEN InfoErr(t, MDErrorNone(<<"additiona info contains forbidden character: ">> \o info))
    ELSE [ok |-> TRUE, info |-> Some(info), rest |-> Slice(t, 1, k), err |-> NoError]

\* Lines 84-90: the info is what stands between the '(' at offset k and the
\* final ')', trimmed.
InfoAt(t, k) ==
    IF k < 0
    THEN InfoErr(t, MDErrorNone(<<"found closing parenthesis but no opening">>))
    ELSE CheckInfo(t, k, trim(Slice(t, k + 2, Len(t) - 1)))

\* Lines 82-102: the info between '(' and ')' at the end of the trimmed
\* text, and the text left in front of it.
ParseInfo(t) ==
    IF ends_with(t, ")") THEN InfoAt(t, find(t, "("))
    ELSE [ok |-> TRUE, info |-> NoneText, rest |-> t, err |-> NoError]

SegmentsErr(e) ==
    [ok |-> FALSE, quantity |-> NoneQuantity, alt_quantities |-> NoneSeq, err |-> e]

\* An accumulation that starts alt_quantities afresh at every alternative
\* instead of pushing to it.
MutAddQuantity(i, quant, quantity, alt_quantities) ==
    [quantity |-> IF i = 1 THEN Some(quant) ELSE quantity,
     alt_quantities |-> IF i = 1 THEN alt_quantities ELSE Some(<<quant>>)]

\* Lines 118-124: where the quantity of segment i (from 1) goes.
AddQuantity(i, quant, quantity, alt_quantities) ==
    [quantity |-> IF i = 1 THEN Some(quant) ELSE quantity,
     alt_quantities |-> IF i = 1 THEN alt_quantities
                        ELSE IF i = 2 THEN Some(<<quant>>)
                        ELSE Some(Append(alt_quantities.v, quant))]

\* Lines 109-125: the loop over the segments between '/', from segment i on;
\* the first segment that fails ends it.
RECURSIVE ParseSegments(_, _, _)
ParseSegment(segs, i, acc, quant) ==
    IF ContainsAny(segs[i], FORBIDDEN_CHARS)
    THEN SegmentsErr(MDErrorNone(<<"quantity contains forbidden character: ">> \o segs[i]))
    ELSE IF ~quant.ok
    THEN SegmentsErr(MDErrorNone(<<"failed to parse quantity: ", quant.err>>))
    ELSE ParseSegments(segs, i + 1,
                       AddQuantity(i, quant.val, acc.quantity, acc.alt_quantities))
ParseSegments(segs, i, acc) ==
    IF i > Len(segs)
    THEN [ok |-> TRUE, quantity |-> acc.quantity, alt_quantities |-> acc.alt_quantities,
          err |-> NoError]
    ELSE ParseSegment(segs, i, acc, Quantity_from_str(trim(segs[i])))

QuantitiesOf(r, rest) ==
    [ok |-> r.ok, quantity |-> r.quantity, alt_quantities |-> r.alt_quantities,
     err |-> r.err, rest |-> rest]

\* Lines 107-127: k is the offset of the first ',' of the text left.
QuantitiesAt(rest, k) ==
    IF k < 0
    THEN [ok |-> TRUE, quantity |-> NoneQuantity, alt_quantities |-> NoneSeq,
          err |-> NoError, rest |-> rest]
    ELSE QuantitiesOf(ParseSegments(split(Slice(rest, k + 2, Len(rest)), "/"), 1,
                                    [quantity |-> NoneQuantity, alt_quantities |-> NoneSeq]),
                      Slice(rest, 1, k))

\* Lines 104-127: the quantities after the first ',' of the text left, and
\* the text in front of it.
ParseQuantities(rest) == QuantitiesAt(rest, find(rest, ","))

\* A check of the name that only rejects the empty name.
MutCheckName(name, quantity, alt_quantities, info) ==
    IF name = <<>>
    THEN IngrErr(MDErrorNone(<<"name cannot be empty: ">> \o name))
    ELSE IngrOk([name |-> name, quantity |-> quantity,
                 alt_quantities |-> alt_quantities, info |-> info])

\* Lines 130-144: the checks of the trimmed name, and the ingredient built.
CheckName(name, quantity, alt_quantities, info) ==
    IF name = <<>>
    THEN IngrErr(MDErrorNone(<<"name cannot be empty: ">> \o name))
    ELSE IF ContainsAny(name, FORBIDDEN_CHARS)
    THEN IngrErr(MDErrorNone(<<"name contains forbidden character">>))
    ELSE IngrOk([name |-> name, quantity |-> quantity,
                 alt_quantities |-> alt_quantities, info |-> info])

\* Lines 104-144, once the info is parsed.
IngredientAfterQuantities(i, q) ==
    IF ~q.ok THEN IngrErr(q.err)
    ELSE CheckName(trim(q.rest), q.quantity, q.alt_quantities, i.info)

IngredientAfterInfo(i) ==
    IF ~i.ok THEN IngrErr(i.err)
    ELSE IngredientAfterQuantities(i, ParseQuantities(i.rest))

\* Ingredient::from_str
Ingredient_from_str(txt) == IngredientAfterInfo(ParseInfo(trim(txt)))

NoOptions == [ingredient |-> NoIngredient, alternatives |-> NoneSeq]

OptsOk(v) == [ok |-> TRUE, val |-> v, err |-> NoError]
OptsErr(e) == [ok |-> FALSE, val |-> NoOptions, err |-> e]

\* Lines 168-170: the loop over the pieces between '|', from piece i on; the
\* first piece that fails ends it.
RECURSIVE ParseAlternatives(_, _, _)
ParseAlternative(pieces, i, alternatives, r) ==
    IF ~r.ok THEN [ok |-> FALSE, alternatives |-> <<>>, err |-> r.err]
    ELSE ParseAlternatives(pieces, i + 1, Append(alternatives, r.val))
ParseAlternatives(pieces, i, alternatives) ==
    IF i > Len(pieces)
    THEN [ok |-> TRUE, alternatives |-> alternatives, err |-> NoError]
    ELSE ParseAlternative(pieces, i, alternatives, Ingredient_from_str(pieces[i]))

\* A split of the alternatives that drops the pieces that are empty.
MutAlternativePieces(txt, k) ==
    IF k # Len(txt)
    THEN SelectSeq(split(Slice(txt, k + 2, Len(txt)), "|"), LAMBDA piece : trim(piece) # <<>>)
    ELSE <<>>

\* Lines 167-168: the pieces after the first '|', at offset k; none when the
\* text has no '|' (k is then the length of the text).
AlternativePieces(txt, k) ==
    IF k # Len(txt) THEN split(Slice(txt, k + 2, Len(txt)), "|") ELSE <<>>

\* Options whose alternatives are Some even when there is none.
MutOptionsOf(ingredient, alts) ==
    IF ~ingredient.ok THEN OptsErr(ingredient.err)
    ELSE IF ~alts.ok THEN OptsErr(alts.err)
    ELSE OptsOk([ingredient |-> ingredient.val, alternatives |-> Some(alts.alternatives)])

\* Lines 165-175: the primary ingredient, then the alternatives.
OptionsOf(ingredient, alts) ==
    IF ~ingredient.ok THEN OptsErr(ingredient.err)
    ELSE IF ~alts.ok THEN OptsErr(alts.err)
    ELSE OptsOk([ingredient |-> ingredient.val,
                 alternatives |-> IF alts.alternatives # <<>>
                                  THEN Some(alts.alternatives) ELSE NoneSeq])

OptionsAt(txt, k) ==
    OptionsOf(Ingredient_from_str(Slice(txt, 1, k)),
              ParseAlternatives(AlternativePieces(txt, k), 1, <<>>))

\* IngredientOptions::from_str
IngredientOptions_from_str(txt) ==
    OptionsAt(txt, IF find(txt, "|") < 0 THEN Len(txt) ELSE find(txt, "|"))

----------------------------------------------------------------------------
(* The ingredients section (recipe/ingredients.rs).                        *)

\* IngredientOptions::parse
IngredientOptions_parse(node) ==
    IF node.kind = "ListItem"
    THEN Try(expect_children(node, 1), LAMBDA e : Err(e.err),
             LAMBDA one : Try(get_text_from_paragraph(node.children[1]), LAMBDA e : e,
                              LAMBDA t : IngredientOptions_from_str(t.val)))
    ELSE Err(MDErrorAt(<<"expected list item">>, node))

\* Ingredients::parse_ingredient_list
parse_ingredient_list(node) ==
    IF node.kind = "List"
    THEN Collect([i \in 1..Len(node.children) |-> IngredientOptions_parse(node.children[i])])
    ELSE Err(MDErrorAt(<<"ingredients must be list">>, node))

\* IngredientGroup::parse
IngredientGroup_parse(heading, list) ==
    Try(get_heading(heading, 3, NoneText), LAMBDA e : e,
        LAMBDA name : Try(parse_ingredient_list(list), LAMBDA e : e,
                          LAMBDA ingredients : Ok([name |-> name.val,
                                                   ingredients |-> ingredients.val])))

\* A chunks(2) that drops the node left alone at the end.
MutChunks2(ns) ==
    [c \in 1..(Len(ns) \div 2) |-> Slice(ns, 2 * c - 1, 2 * c)]

\* slice::chunks(2): the pairs of nodes, and the last node alone when the
\* number of nodes is odd.
Chunks2(ns) ==
    [c \in 1..((Len(ns) + 1) \div 2) |-> Slice(ns, 2 * c - 1, Min({2 * c, Len(ns)}))]

\* Lines 27-33: one chunk of the nodes.
GroupOfChunk(group) ==
    IF Len(group) = 1 THEN Err(MDErrorAt(<<"malformed ingredient group">>, group[1]))
    ELSE IngredientGroup_parse(group[1], group[2])

\* Ingredients::parse
Ingredients_parse(ns) ==
    IF Len(ns) = 0 THEN Ok([kind |-> "IngredientList", items |-> <<>>])
    ELSE IF Len(ns) = 1
    THEN Try(parse_ingredient_list(ns[1]), LAMBDA e : e,
             LAMBDA list : Ok([kind |-> "IngredientList", items |-> list.val]))
    ELSE Try(Collect([c \in 1..Len(Chunks2(ns)) |-> GroupOfChunk(Chunks2(ns)[c])]),
             LAMBDA e : e,
             LAMBDA groups : Ok([kind |-> "IngredientGroups", items |-> groups.val]))

----------------------------------------------------------------------------
(* The instructions section (recipe/instructions.rs).                      *)

NoFamilyQuantity == [unit |-> "none", amount |-> NoAmount]

\* enum ParseQuantityOfError: the text of the unit, or the text of the amount
\* and the ParseFloatError.
NoQuantityOfError == [kind |-> "none", text |-> <<>>, cause |-> ""]
InvalidUnit(unit) == [kind |-> "InvalidUnit", text |-> unit, cause |-> ""]
InvalidAmount(quantity, cause) == [kind |-> "InvalidAmount", text |-> quantity, cause |-> cause]

\* An amount checked before the unit.
MutQuantityOfTexts(family, quantity, unit) ==
    IF ~parse_f32(quantity).ok
    THEN [ok |-> FALSE, val |-> NoFamilyQuantity,
          err |-> InvalidAmount(quantity, parse_f32(quantity).err)]
    ELSE IF ~Family_from_str(family, unit).ok
    THEN [ok |-> FALSE, val |-> NoFamilyQuantity, err |-> InvalidUnit(unit)]
    ELSE [ok |-> TRUE,
          val |-> [unit |-> Family_from_str(family, unit).unit,
                   amount |-> parse_f32(quantity).val],
          err |-> NoQuantityOfError]

\* Lines 372-377: the unit is looked up first, then the amount is parsed.
QuantityOfTexts(family, quantity, unit) ==
    IF ~Family_from_str(family, unit).ok
    THEN [ok |-> FALSE, val |-> NoFamilyQuantity, err |-> InvalidUnit(unit)]
    ELSE IF ~parse_f32(quantity).ok
    THEN [ok |-> FALSE, val |-> NoFamilyQuantity,
          err |-> InvalidAmount(quantity, parse_f32(quantity).err)]
    ELSE [ok |-> TRUE,
          val |-> [unit |-> Family_from_str(family, unit).unit,
                   amount |-> parse_f32(quantity).val],
          err |-> NoQuantityOfError]

\* A cut that leaves the spaces around the unit.
MutQuantityOfSplit(family, s, split_at) ==
    QuantityOfTexts(family, trim(Slice(s, 1, split_at)), Slice(s, split_at + 1, Len(s)))

\* Lines 368-371: the text is cut at split_at.
QuantityOfSplit(family, s, split_at) ==
    QuantityOfTexts(family, trim(Slice(s, 1, split_at)), trim(Slice(s, split_at + 1, Len(s))))

\* impl FromStr for QuantityOf<T>, T the family of the unit
QuantityOf_from_str(family, s) ==
    QuantityOfSplit(family, s, IF FindSplit(s) < 0 THEN Len(s) ELSE FindSplit(s))

TextElemOf(kind, txt, timer) == [kind |-> kind, text |-> txt, timer |-> timer]

\* Lines 106-113: the text of a strong node is a time.
TimerOf(child, r) ==
    IF r.ok THEN Ok(TextElemOf("Timer", <<>>, r.val))
    ELSE Err(MDErrorAt(<<"expected time information but got \"">> \o child.value
                           \o <<"\"">>, child))

\* TextElem::from_node
TextElem_from_node(node) ==
    CASE node.kind = "Text" -> Ok(TextElemOf("Text", node.value, NoFamilyQuantity))
      [] node.kind = "Emphasis" ->
            IF Len(node.children) = 0
            THEN Ok(TextElemOf("IngredientRef", <<>>, NoFamilyQuantity))
            ELSE IF Len(node.children) = 1
            THEN IF node.children[1].kind = "Text"
                 THEN Ok(TextElemOf("IngredientRef", node.children[1].value,
                                    NoFamilyQuantity))
                 ELSE Err(MDErrorAt(<<"expected ingrdient ref to be text">>,
                                    node.children[1]))
            ELSE Err(MDErrorAt(<<"expected single children">>, node))
      [] node.kind = "Strong" ->
            IF Len(node.children) = 0
            THEN Ok(TextElemOf("IngredientRef", <<>>, NoFamilyQuantity))
            ELSE IF Len(node.children) = 1
            THEN IF node.children[1].kind = "Text"
                 THEN TimerOf(node.children[1],
                              QuantityOf_from_str("Time", node.children[1].value))
                 ELSE Err(MDErrorAt(<<"expected ingrdient ref to be text">>,
                                    node.children[1]))
            ELSE Err(MDErrorAt(<<"expected single children">>, node))
      [] OTHER -> Err(MDErrorAt(<<"unsupported element in step">>, node))

\* Step::parse_description
parse_description(node) ==
    IF node.kind = "Paragraph"
    THEN Collect([i \in 1..Len(node.children) |-> TextElem_from_node(node.children[i])])
    ELSE Err(MDErrorAt(<<"expected paragraph">>, node))

\* A step that loses its substeps.
MutStepOf(description, substeps) == [description |-> description, substeps |-> <<>>]

StepOf(description, substeps) == [description |-> description, substeps |-> substeps]

RECURSIVE parse_step(_), parse_step_list(_)

\* Step::parse_step
parse_step(node) ==
    IF node.kind # "ListItem" THEN Err(MDErrorAt(<<"expected list item">>, node))
    ELSE IF Len(node.children) = 0 THEN Ok(StepOf(<<>>, <<>>))
    ELSE IF Len(node.children) = 1
    THEN Try(parse_description(node.children[1]), LAMBDA e : e,
             LAMBDA description : Ok(StepOf(description.val, <<>>)))
    ELSE IF Len(node.children) = 2
    THEN Try(parse_description(node.children[1]), LAMBDA e : e,
             LAMBDA description :
                 Try(parse_step_list(node.children[2]), LAMBDA e : e,
                     LAMBDA substeps : Ok(StepOf(description.val, substeps.val))))
    ELSE Err(MDErrorNone(<<"too many children to list item, expected at most 2">>))

\* Step::parse_step_list
parse_step_list(node) ==
    IF node.kind = "List"
    THEN Collect([i \in 1..Len(node.children) |-> parse_step(node.children[i])])
    ELSE Err(MDErrorAt(<<"expected list">>, node))

\* Instructions::from_mdast
Instructions_from_mdast(ns) ==
    IF Len(ns) = 0 THEN Ok(<<>>)
    ELSE IF Len(ns) = 1 THEN parse_step_list(ns[1])
    ELSE Err(MDErrorNone(<<"expected single list node for steps">>))

----------------------------------------------------------------------------
(* The metadata (recipe/metadata.rs).  A YAML value is its kind, the text  *)
(* of a string, and the items of a sequence or the (key, value) entries of *)
(* a mapping.                                                              *)

YString(v) == [kind |-> "String", value |-> v, items |-> <<>>]
YSequence(items) == [kind |-> "Sequence", value |-> <<>>, items |-> items]
YMapping(entries) == [kind |-> "Mapping", value |-> <<>>, items |-> entries]
YInteger == [kind |-> "Integer", value |-> <<>>, items |-> <<>>]

TAGS == <<"t", "a", "g", "s">>
QUANTITY == <<"q", "u", "a", "n", "t", "i", "t", "y">>
SIZE_PREFIX == <<"s", "i", "z", "e", " ", "|", " ">>

\* str::starts_with
starts_with(s, prefix) == Len(s) >= Len(prefix) /\ Slice(s, 1, Len(prefix)) = prefix

IsAlphanumeric(c) == IsAlphabetic(c) \/ c \in Range(Digits)

\* format!("{:?}", s) of a text without quote nor backslash.
Debug(s) == <<"\"">> \o s \o <<"\"">>

\* A get_tag that lets every character through.
MutGetTag(tag) ==
    IF ~starts_with(tag, <<"#">>)
    THEN Err(MDErrorNone(<<"tag must start with '#' character">>))
    ELSE Ok(Tail(tag))

\* Metadata::get_tag
get_tag(tag) ==
    IF ~starts_with(tag, <<"#">>)
    THEN Err(MDErrorNone(<<"tag must start with '#' character">>))
    ELSE IF \E i \in 2..Len(tag) : ~IsAlphanumeric(tag[i]) /\ tag[i] \notin {"/", "-", "_"}
    THEN Err(MDErrorNone(<<"tag ">> \o Debug(tag) \o <<" contains forbidden characters">>))
    ELSE Ok(Tail(tag))

\* What a function given this.tags, this.sizes or this.others by &mut
\* returns, and what it leaves in it.
Stored(ok, out, err) == [ok |-> ok, out |-> out, err |-> err]

\* Lines 84-89: the loop over the tags, from the i-th on; a tag is pushed
\* before the next is looked at.
RECURSIVE PushTags(_, _, _)
PushTags(value, i, tags) ==
    IF i > Len(value) THEN Stored(TRUE, tags, NoError)
    ELSE IF value[i].kind # "String"
    THEN Stored(FALSE, tags, MDErrorNone(<<"expected string tag">>))
    ELSE IF ~get_tag(value[i].value).ok THEN Stored(FALSE, tags, get_tag(value[i].value).err)
    ELSE PushTags(value, i + 1, Append(tags, get_tag(value[i].value).val))

\* Metadata::parse_tags
parse_tags(value, tags) ==
    IF value.kind # "Sequence"
    THEN Stored(FALSE, tags, MDErrorNone(<<"expected sequence under ">> \o Debug(TAGS)))
    ELSE PushTags(value.items, 1, tags)

\* impl From<ParseFloatError> for MDError
MDError_from(e) == MDErrorNone(<<e>>)

\* Metadata::parse_quantity
Metadata_parse_quantity(value, quantity) ==
    IF value.kind # "String"
    THEN Stored(FALSE, quantity,
                MDErrorNone(<<"expected string under ">> \o Debug(QUANTITY)))
    ELSE LetIn(Quantity_from_str(value.value),
               LAMBDA r : IF r.ok THEN Stored(TRUE, r.val, NoError)
                          ELSE Stored(FALSE, quantity, MDError_from(r.err)))

\* impl fmt::Display for ParseQuantityOfError
ParseQuantityOfError_fmt(e) ==
    IF e.kind = "InvalidUnit" THEN <<"unknown unit \"">> \o e.text \o <<"\"">>
    ELSE <<"could not parse amount \"">> \o e.text \o <<"\": ", e.cause>>

\* Some(UnitMod::RadialDistance), and None.
RadialDistance == [some |-> TRUE, v |-> "RadialDistance"]
NoneUnitMod == [some |-> FALSE, v |-> "none"]

SizeInfoOf(r, unit_mod) ==
    IF r.ok THEN Ok([quantity |-> r.val, unit_mod |-> unit_mod])
    ELSE Err(MDErrorNone(<<"failed to parse quantity: ">> \o ParseQuantityOfError_fmt(r.err)))

\* A from_str that never looks for the modifier.
MutSizeInfo_from_str(s) == SizeInfoOf(QuantityOf_from_str("Distance", trim(s)), NoneUnitMod)

\* impl FromStr for SizeInfo
SizeInfo_from_str(s) ==
    IF ends_with(trim(s), DEG)
    THEN SizeInfoOf(QuantityOf_from_str("Distance", Slice(trim(s), 1, Len(trim(s)) - 1)),
                    RadialDistance)
    ELSE SizeInfoOf(QuantityOf_from_str("Distance", trim(s)), NoneUnitMod)

\* HashMap::insert
Insert(map, key, value) ==
    [k \in DOMAIN map \cup {key} |-> IF k = key THEN value ELSE map[k]]

\* Metadata::parse_size
parse_size(key, value, sizes) ==
    IF key = <<>> THEN Stored(FALSE, sizes, MDErrorNone(<<"sized object must have a name">>))
    ELSE IF value.kind # "String"
    THEN Stored(FALSE, sizes,
                MDErrorNone(<<"expected string size attribute for ">> \o Debug(key)))
    ELSE LetIn(SizeInfo_from_str(value.value),
               LAMBDA r : IF r.ok THEN Stored(TRUE, Insert(sizes, key, r.val), NoError)
                          ELSE Stored(FALSE, sizes, r.err))

\* Metadata::parse_others: the value is inserted before the duplicate is
\* reported.
parse_others(key, value, others) ==
    IF value.kind # "String"
    THEN Stored(FALSE, others,
                MDErrorNone(<<"for unknown keys, only string values are supported">>))
    ELSE IF key \in DOMAIN others
    THEN Stored(FALSE, Insert(others, key, value.value),
                MDErrorNone(<<"duplicate metadata key ">> \o Debug(key)))
    ELSE Stored(TRUE, Insert(others, key, value.value), NoError)

\* impl Default for Metadata
Metadata_default ==
    [tags |-> <<>>, quantity |-> [unit |-> NominalUnit, amount |-> Frac(1, 1)],
     sizes |-> <<>>, others |-> <<>>]

\* Lines 43-53: the entry of the key.
ParseEntry(key, value, this) ==
    IF key = TAGS
    THEN LetIn(parse_tags(value, this.tags),
               LAMBDA r : [ok |-> r.ok, this |-> [this EXCEPT !.tags = r.out], err |-> r.err])
    ELSE IF key = QUANTITY
    THEN LetIn(Metadata_parse_quantity(value, this.quantity),
               LAMBDA r : [ok |-> r.ok, this |-> [this EXCEPT !.quantity = r.out],
                           err |-> r.err])
    ELSE IF starts_with(key, SIZE_PREFIX)
    THEN LetIn(parse_size(Slice(key, Len(SIZE_PREFIX) + 1, Len(key)), value, this.sizes),
               LAMBDA r : [ok |-> r.ok, this |-> [this EXCEPT !.sizes = r.out], err |-> r.err])
    ELSE LetIn(parse_others(key, value, this.others),
               LAMBDA r : [ok |-> r.ok, this |-> [this EXCEPT !.others = r.out],
                           err |-> r.err])

\* Lines 39-56: the loop over the entries of the mapping, from the i-th on.
RECURSIVE ParseEntries(_, _, _)
ParseEntries(mapping, i, this) ==
    IF i > Len(mapping) THEN Ok(this)
    ELSE IF mapping[i].key.kind # "String" THEN Err(MDErrorNone(<<"expected string key">>))
    ELSE LetIn(ParseEntry(mapping[i].key.value, mapping[i].value, this),
               LAMBDA r : IF r.ok THEN ParseEntries(mapping, i + 1, r.this) ELSE Err(r.err))

\* Metadata::parse on the documents saphyr loads from the text.
Metadata_parse(metadata) ==
    IF Len(metadata) # 1
    THEN Err(MDErrorNone(<<"expected single YAML document in frontmatter">>))
    ELSE IF metadata[1].kind # "Mapping"
    THEN Err(MDErrorNone(<<"expected top-level element to be mapping">>))
    ELSE ParseEntries(metadata[1].items, 1, Metadata_default)

----------------------------------------------------------------------------
(* The document assembly (recipe.rs).                                      *)

\* Unit::decode of recipe.rs: the match arms, token |-> unit.
DecodeTable ==
    {<<<<"g">>, "Gram">>,
     <<<<"k", "g">>, "Kilogram">>,
     <<<<"o", "z">>, "Ounce">>,
     <<<<"l", "b", "s">>, "Pound">>,
     <<<<"m", "l">>, "Milliliter">>,
     <<<<"c", "l">>, "Centiliter">>,
     <<<<"l">>, "Liter">>,
     <<<<"t", "s", "p">>, "Teaspoon">>,
     <<<<"t", "b", "s", "p">>, "Tablespoon">>,
     <<<<"f", "l", " ", "o", "z">>, "FluidOunce">>,
     <<<<"f", "l", ".", " ", "o", "z", ".">>, "FluidOunce">>,
     <<<<"c", "u", "p">>, "Cup">>,
     <<<<"g", "a", "l">>, "Liter">>,
     <<<<DEG, "c">>, "Celsius">>,
     <<<<DEG, "f">>, "Farenheit">>,
     <<<<"m", "m">>, "Millimeter">>,
     <<<<"c", "m">>, "Centimeter">>,
     <<<<"i", "n">>, "Inches">>}

\* Unit::decode of recipe.rs
Unit_decode(txt) ==
    LetIn(Lookup(DecodeTable, txt),
          LAMBDA r : IF r.ok THEN [unit |-> r.unit, custom |-> <<>>]
                     ELSE [unit |-> "Custom", custom |-> txt])

NoneUnit == [some |-> FALSE, v |-> [unit |-> "none", custom |-> <<>>]]

\* str::find(char::is_alphabetic): 0-based, -1 for None.
FindAlphabetic(s) == FirstOffset({i \in 1..Len(s) : IsAlphabetic(s[i])})

\* parse::<f32>()?: the ParseFloatError becomes an MDError without a place.
ParseAmount(s) ==
    LetIn(parse_f32(s), LAMBDA r : IF r.ok THEN Ok(r.val) ELSE Err(MDErrorNone(<<r.err>>)))

\* Lines 103-112: the quantity and the unit of the second component; idx is
\* the offset of its first alphabetic character.
QuantityAndUnit(component, k) ==
    IF k >= 0
    THEN Try(ParseAmount(trim(Slice(component, 1, k))), LAMBDA e : e,
             LAMBDA q : Ok([quantity |-> q.val,
                            unit |-> Some(Unit_decode(trim(Slice(component, k + 1,
                                                                 Len(component)))))]))
    ELSE Try(ParseAmount(component), LAMBDA e : e,
             LAMBDA q : Ok([quantity |-> q.val, unit |-> NoneUnit]))

\* Lines 95-119, on the trimmed components of the text.
IngredientOfComponents(components) ==
    IF Len(components) < 2
    THEN Err(MDErrorNone(
             <<"ingredient must be formatted as <name>, <quantity> [, <leftover>]*">>))
    ELSE Try(QuantityAndUnit(components[2], FindAlphabetic(components[2])), LAMBDA e : e,
             LAMBDA qu : Ok([name |-> components[1],
                             quantity |-> qu.val.quantity,
                             unit |-> qu.val.unit,
                             attributes |-> Slice(components, 3, Len(components))]))

\* Ingredient::from_str of recipe.rs
Recipe_Ingredient_from_str(txt) ==
    LetIn(split(txt, ","),
          LAMBDA pieces : IngredientOfComponents([i \in 1..Len(pieces) |-> trim(pieces[i])]))

\* Lines 57-68: one child of the list.
IngredientOfItem(n) ==
    IF n.kind = "ListItem"
    THEN Try(expect_children(n, 1), LAMBDA e : Err(e.err),
             LAMBDA one : Try(get_text_from_paragraph(n.children[1]), LAMBDA e : e,
                              LAMBDA t : Recipe_Ingredient_from_str(t.val)))
    ELSE Err(MDErrorAt(<<"expected list item">>, n))

\* IngredientList::from_mdast
IngredientList_from_mdast(ns) ==
    IF Len(ns) = 0 THEN Ok(<<>>)
    ELSE IF Len(ns) # 1
    THEN Err(MDErrorNone(<<"expect single list node for ingredients">>))
    ELSE IF ns[1].kind = "List"
    THEN Collect([i \in 1..Len(ns[1].children) |-> IngredientOfItem(ns[1].children[i])])
    ELSE Err(MDErrorAt(<<"ingredients must be list">>, ns[1]))

\* Steps::from_mdast of recipe.rs
Steps_from_mdast(ns) == Ok(<<>>)

IngredientsName == <<"I", "n", "g", "r", "e", "d", "i", "e", "n", "t", "s">>

StepsName == <<"S", "t", "e", "p", "s">>

\* What from_mdast returns, with the index its cursor is left at.
Returned(r, i) == [ok |-> r.ok, val |-> r.val, err |-> r.err, idx |-> i]

\* Recipe::from_mdast, from the children of the root that markdown::to_mdast
\* returns (a root always has children, and the default options never fail).
Recipe_from_mdast(children) ==
    Try(consume_next(children, 0), LAMBDA e : Returned(Err(e.err), e.idx), LAMBDA n1 :
    Try(get_heading(n1.ret[1], 1, NoneText), LAMBDA e : Returned(e, n1.idx), LAMBDA name :
    Try(consume_next(children, n1.idx), LAMBDA e : Returned(Err(e.err), e.idx), LAMBDA n2 :
    Try(get_heading(n2.ret[1], 2, Some(IngredientsName)), LAMBDA e : Returned(e, n2.idx),
        LAMBDA h2 :
    LetIn(consume_to_next_heading(children, n2.idx, 2), LAMBDA run1 :
    Try(IngredientList_from_mdast(run1.ret), LAMBDA e : Returned(e, run1.idx),
        LAMBDA ingredients :
    Try(consume_next(children, run1.idx), LAMBDA e : Returned(Err(e.err), e.idx), LAMBDA n3 :
    Try(get_heading(n3.ret[1], 2, Some(StepsName)), LAMBDA e : Returned(e, n3.idx),
        LAMBDA h3 :
    LetIn(consume_to_next_heading(children, n3.idx, 2), LAMBDA run2 :
    Try(Steps_from_mdast(run2.ret), LAMBDA e : Returned(e, run2.idx), LAMBDA steps :
        Returned(Ok([name |-> name.val, ingredients |-> ingredients.val,
                     steps |-> steps.val]), run2.idx)))))))))))

----------------------------------------------------------------------------
(* The cursor on its own: any sequence of calls on any node sequence.      *)

CursorKinds ==
    {Heading(d, <<>>) : d \in 1..MaxDepth} \cup {List(<<>>), Paragraph(<<>>)}

NoCall == [op |-> "none", depth |-> 0, from |-> 0, ok |-> TRUE, ret |-> <<>>, err |-> NoError]

Call(op, depth, from, r) ==
    [op |-> op, depth |-> depth, from |-> from, ok |-> r.ok, ret |-> r.ret, err |-> r.err]

NotCalledIngr == [called |-> FALSE, ok |-> FALSE, val |-> NoIngredient, err |-> NoError]

NotCalledOpts == [called |-> FALSE, ok |-> FALSE, val |-> NoOptions, err |-> NoError]

Called(r) == [called |-> TRUE, ok |-> r.ok, val |-> r.val, err |-> r.err]

\* No ingredient text is being parsed.
NoIngredientInput ==
    /\ text = <<>>
    /\ ingr = NotCalledIngr
    /\ opts = NotCalledOpts

\* No parser was called on the nodes.
NotParsed == [fn |-> "none", ok |-> FALSE, val |-> <<>>, err |-> NoError, idx |-> 0]

\* No cursor is at work.
NoCursor ==
    /\ nodes = <<>>
    /\ idx = 0
    /\ consumed = <<>>
    /\ last = NoCall
    /\ parsed = NotParsed

\* ASTConsumer::new
InitCursor ==
    /\ nodes \in {PlaceAll(ns, <<>>) : ns \in SeqsUpTo(CursorKinds, MaxNodes)}
    /\ idx = 0
    /\ consumed = <<>>
    /\ last = NoCall
    /\ parsed = NotParsed
    /\ NoIngredientInput

ConsumeNext ==
    LET r == consume_next(nodes, idx)
    IN  /\ idx' = r.idx
        /\ consumed' = consumed \o r.ret
        /\ last' = Call("consume_next", 0, idx, r)
        /\ UNCHANGED <<nodes, text, ingr, opts, parsed>>

ConsumeToNextHeading ==
    \E depth \in 1..MaxDepth :
        LET r == consume_to_next_heading(nodes, idx, depth)
        IN  /\ idx' = r.idx
            /\ consumed' = consumed \o r.ret
            /\ last' = Call("consume_to_next_heading", depth, idx, r)
            /\ UNCHANGED <<nodes, text, ingr, opts, parsed>>

GetRemaining ==
    LET r == get_remaining(nodes, idx)
    IN  /\ idx' = r.idx
        /\ last' = Call("get_remaining", 0, idx, r)
        /\ UNCHANGED <<nodes, consumed, text, ingr, opts, parsed>>

NextCursor == ConsumeNext \/ ConsumeToNextHeading \/ GetRemaining

SpecCursor == InitCursor /\ [][NextCursor]_vars

----------------------------------------------------------------------------
(* The ingredient grammar on its own: Ingredient::from_str and             *)
(* IngredientOptions::from_str applied to a text.                          *)

IngrChars == {"g", " ", ",", "/", "(", ")", "|", "1"}

RECURSIVE Join(_, _)
Join(pieces, sep) ==
    IF Len(pieces) = 0 THEN <<>>
    ELSE IF Len(pieces) = 1 THEN pieces[1]
    ELSE pieces[1] \o <<sep>> \o Join(Tail(pieces), sep)

NamePieces == {<<"g">>, <<" ", "g", "g", " ">>}

SegPieces == {<<"1">>, <<"1", "g">>, <<" ", "2", " ", "l", " ">>, <<>>, <<"g", "1">>}

InfoPieces ==
    {<<>>, <<"(", "g", ")">>, <<" ", "(", " ", "g", ",", "g", " ", ")", " ">>,
     <<"(", "g">>, <<"g", ")">>, <<"(", "(", "g", ")", ")">>}

OptPieces ==
    {<<"g">>, <<"g", ",", "1">>, <<" ", "g", " ", "(", "g", ")", " ">>, <<>>, <<" ">>,
     <<"g", ",", "1", "/", "1", "g">>}

\* <name>[, <quantity>[/<alt>]*][(<info>)], well formed or not.
ComposedIngredients ==
    {name \o (IF Len(segs) = 0 THEN <<>> ELSE <<",">> \o Join(segs, "/")) \o info :
        name \in NamePieces, segs \in SeqsUpTo(SegPieces, MaxSegs), info \in InfoPieces}

\* Ingredients separated by '|'.
ComposedOptions ==
    {Join(pieces, "|") : pieces \in SeqsUpTo(OptPieces, MaxAlts + 1)}

\* The texts of the tests of recipe/ingredients.rs (lines 213-332).
\* ""
C_TextEmpty ==
    <<>>

\* "  , 15mL"
C_TextNoName ==
    <<" ", " ", ",", " ", "1", "5", "m", "L">>

\* "na|me, 15mL"
C_TextBarInName ==
    <<"n", "a", "|", "m", "e", ",", " ", "1", "5", "m", "L">>

\* "name, 15mL, 15mL"
C_TextTwoCommas ==
    <<"n", "a", "m", "e", ",", " ", "1", "5", "m", "L", ",", " ", "1", "5",
      "m", "L">>

\* "name, 15mL / "
C_TextEmptyAlt ==
    <<"n", "a", "m", "e", ",", " ", "1", "5", "m", "L", " ", "/", " ">>

\* "name, 15mL//3tsp"
C_TextDoubleSlash ==
    <<"n", "a", "m", "e", ",", " ", "1", "5", "m", "L", "/", "/", "3", "t",
      "s", "p">>

\* "name, a15mL"
C_TextLetterFirst ==
    <<"n", "a", "m", "e", ",", " ", "a", "1", "5", "m", "L">>

\* "name, 15mL / 3 tsp / 1tbsp"
C_TextAlts ==
    <<"n", "a", "m", "e", ",", " ", "1", "5", "m", "L", " ", "/", " ", "3",
      " ", "t", "s", "p", " ", "/", " ", "1", "t", "b", "s", "p">>

\* "name, 15mL (info"
C_TextUnclosedInfo ==
    <<"n", "a", "m", "e", ",", " ", "1", "5", "m", "L", " ", "(", "i", "n",
      "f", "o">>

\* "name, 15mL info)"
C_TextUnopenedInfo ==
    <<"n", "a", "m", "e", ",", " ", "1", "5", "m", "L", " ", "i", "n", "f",
      "o", ")">>

\* "name, 15mL ((info))"
C_TextNestedInfo ==
    <<"n", "a", "m", "e", ",", " ", "1", "5", "m", "L", " ", "(", "(", "i",
      "n", "f", "o", ")", ")">>

TestTexts ==
    {C_TextEmpty, C_TextNoName, C_TextBarInName, C_TextTwoCommas, C_TextEmptyAlt,
     C_TextDoubleSlash, C_TextLetterFirst, C_TextAlts, C_TextUnclosedInfo,
     C_TextUnopenedInfo, C_TextNestedInfo,
     <<"n", "a", "m", "e", ",", " ", "1", "5", "m", "L">>,
     <<"n", "a", "m", "e", ",", " ", "1", "5", " ", "m", "L">>,
     <<" ", " ", " ", "n", "a", "m", "e", " ", " ", " ", ",", " ", " ", "1",
       "5", "m", "L", " ", " ">>,
     <<"n", "a", "m", "e">>,
     <<"n", "a", "m", "e", ",", " ", "1">>,
     <<"n", "a", "m", "e", ",", " ", "1", " ", "b", "u", "n", "c", "h">>,
     <<"n", "a", "m", "e", " ", "(", "i", "n", "f", "o", ")">>,
     <<"n", "a", "m", "e", ",", " ", "1", " ", "t", "b", "s", "p", " ", "(",
       "o", "p", "t", "i", "o", "n", "a", "l", ",", " ", "s", "p", "i", "c",
       "y", ")">>,
     <<"n", "a", "m", "e", ",", " ", "1", " ", "t", "b", "s", "p", "(", "o",
       "p", "t", "i", "o", "n", "a", "l", ",", " ", "s", "p", "i", "c", "y", ")">>,
     <<"n", "a", "m", "e", ",", " ", "1", " ", "t", "b", "s", "p", " ", " ",
       " ", " ", "(", "o", "p", "t", "i", "o", "n", "a", "l", ",", " ", "s",
       "p", "i", "c", "y", ")", " ", " ", " ">>,
     <<"n", "a", "m", "e", ",", " ", "1", " ", "t", "b", "s", "p", " ", "(",
       " ", " ", "o", "p", "t", "i", "o", "n", "a", "l", ",", " ", "s", "p",
       "i", "c", "y", " ", ")", " ", " ", " ">>,
     <<"n", "a", "m", "e", ",", " ", "1", "5", "m", "L", " ", " ", "/", " ",
       " ", "3", " ", "t", "s", "p", "/", "1", "t", "b", "s", "p">>,
     <<"n", "a", "m", "e", ",", " ", "1", "5", "m", "l", " ", "(", "i", "n",
       "f", "o", ")">>,
     <<"n", "a", "m", "e", ",", " ", "1", "5", "m", "l", " ", "(", "i", "n",
       "f", "o", ")", "|", "n", "a", "m", "e", " ", "(", "i", "n", "f", "o",
       ")", " ", " ", " ", " ", "|", " ", " ", " ", "n", "a", "m", "e", ",",
       " ", "1">>,
     <<",", " ", "1", "5", "m", "l", " ", "(", "i", "n", "f", "o", ")">>,
     <<"n", "a", "m", "e", ",", " ", "1", "5", "m", "l", " ", "(", "i", "n",
       "f", "o", ")", " ", "|", " ", ",", " ", "1", "5", "m", "l", " ", "(",
       "i", "n", "f", "o", ")">>,
     <<"n", "a", "m", "e", ",", " ", "1", "5", "m", "l", " ", "(", "i", "n",
       "f", "o", ")", " ", "|", " ">>}

IngredientTexts ==
    SeqsUpTo(IngrChars, MaxTextLen) \cup ComposedIngredients \cup ComposedOptions
        \cup TestTexts

InitIngredient ==
    /\ text \in IngredientTexts
    /\ ingr = NotCalledIngr
    /\ opts = NotCalledOpts
    /\ NoCursor

IngredientFromStr ==
    /\ ingr' = Called(Ingredient_from_str(text))
    /\ UNCHANGED <<text, opts, nodes, idx, consumed, last, parsed>>

IngredientOptionsFromStr ==
    /\ opts' = Called(IngredientOptions_from_str(text))
    /\ UNCHANGED <<text, ingr, nodes, idx, consumed, last, parsed>>

NextIngredient == IngredientFromStr \/ IngredientOptionsFromStr

SpecIngredient == InitIngredient /\ [][NextIngredient]_vars

----------------------------------------------------------------------------
(* The parsers of a document: Recipe::from_mdast, Ingredients::parse and   *)
(* Instructions::from_mdast applied to the nodes markdown::to_mdast gives. *)

Item(txt) == ListItem(<<Paragraph(<<Text(txt)>>)>>)

\* "# T", and "#" alone.
H1Title == Heading(1, <<Text(<<"T">>)>>)
H1Empty == Heading(1, <<>>)

\* "## Ingredients", "## Steps", "## *Steps*" and "### G".
H2Ingredients == Heading(2, <<Text(IngredientsName)>>)
H2Steps == Heading(2, <<Text(StepsName)>>)
H2Emphasis == Heading(2, <<Emphasis(<<Text(StepsName)>>)>>)
H3Group == Heading(3, <<Text(<<"G">>)>>)

\* "- g, 1" and "- g, 2 l"
ListGood == List(<<Item(<<"g", ",", " ", "1">>), Item(<<"g", ",", " ", "2", " ", "l">>)>>)

\* "- g, 1", "- g", "- g, x" and "- ("
ListBad == List(<<Item(<<"g", ",", " ", "1">>), Item(<<"g">>), Item(<<"g", ",", " ", "x">>), Item(<<"(">>)>>)

\* "- T" with the substeps "- N *e* a **10 min**" and "- S" with "- D", then
\* "-", an item without child.
StepsGood ==
    List(<<ListItem(<<Paragraph(<<Text(<<"T">>)>>),
                      List(<<ListItem(<<Paragraph(<<Text(<<"N">>), Emphasis(<<Text(<<"e">>)>>),
                                                    Text(<<"a">>), Strong(<<Text(<<"1", "0", " ", "m", "i", "n">>)>>)>>)>>),
                             ListItem(<<Paragraph(<<Text(<<"S">>)>>),
                                        List(<<Item(<<"D">>)>>)>>)>>)>>),
           ListItem(<<>>)>>)

\* "- T" with the substep "- D" and a second paragraph "p": three children.
StepsWide ==
    List(<<ListItem(<<Paragraph(<<Text(<<"T">>)>>), List(<<Item(<<"D">>)>>),
                      Paragraph(<<Text(<<"p">>)>>)>>)>>)

\* "- **1 g** ***e***" with the substep "- ***" (a thematic break), then
\* "- ***": the description, the substep and the second step fail.
StepsBad ==
    List(<<ListItem(<<Paragraph(<<Strong(<<Text(<<"1", " ", "g">>)>>),
                                  Strong(<<Emphasis(<<Text(<<"e">>)>>)>>)>>),
                      List(<<ListItem(<<ThematicBreak>>)>>)>>),
           ListItem(<<ThematicBreak>>)>>)

\* "- T" with a substep that fails, then a step whose description fails.
StepsLate ==
    List(<<Item(<<"T">>),
           ListItem(<<Paragraph(<<Text(<<"T">>)>>),
                      List(<<Item(<<"D">>), ListItem(<<ThematicBreak>>)>>)>>),
           ListItem(<<Paragraph(<<Strong(<<Text(<<"x">>)>>)>>)>>)>>)

ParagraphNode == Paragraph(<<Text(<<"p">>)>>)

TopKinds ==
    {H1Title, H1Empty, H2Ingredients, H2Steps, H2Emphasis, H3Group, ListGood, ListBad,
     StepsGood, StepsBad, StepsLate, StepsWide, ParagraphNode}

BodyKinds == {ListGood, ListBad, H3Group, ParagraphNode}

TailKinds == {H2Steps, H3Group, ListGood, ParagraphNode}

\* "# T", "## Ingredients", a section, "## Steps", and what follows.
ComposedRecipes ==
    {<<H1Title, H2Ingredients>> \o body \o <<H2Steps>> \o tail :
        body \in SeqsUpTo(BodyKinds, MaxBody), tail \in SeqsUpTo(TailKinds, MaxTail)}

\* "### G" and a list, several times over.
ComposedGroups ==
    {<<H3Group, l1, h, l2>> : l1 \in {ListGood, ListBad}, h \in {H3Group, H2Steps},
                               l2 \in {ListGood, ListBad, ParagraphNode}}

Documents == SeqsUpTo(TopKinds, MaxTop) \cup ComposedRecipes \cup ComposedGroups

InitDocument ==
    /\ nodes \in {PlaceAll(ns, <<>>) : ns \in Documents}
    /\ idx = 0
    /\ consumed = <<>>
    /\ last = NoCall
    /\ parsed = NotParsed
    /\ NoIngredientInput

Parsed(fn, r, i) == [fn |-> fn, ok |-> r.ok, val |-> r.val, err |-> r.err, idx |-> i]

RecipeFromMdast ==
    /\ parsed' = LetIn(Recipe_from_mdast(nodes),
                       LAMBDA r : Parsed("Recipe::from_mdast", r, r.idx))
    /\ UNCHANGED <<nodes, idx, consumed, last, text, ingr, opts>>

IngredientsParse ==
    /\ parsed' = Parsed("Ingredients::parse", Ingredients_parse(nodes), 0)
    /\ UNCHANGED <<nodes, idx, consumed, last, text, ingr, opts>>

InstructionsFromMdast ==
    /\ parsed' = Parsed("Instructions::from_mdast", Instructions_from_mdast(nodes), 0)
    /\ UNCHANGED <<nodes, idx, consumed, last, text, ingr, opts>>

NextDocument == RecipeFromMdast \/ IngredientsParse \/ InstructionsFromMdast

SpecDocument == InitDocument /\ [][NextDocument]_vars

----------------------------------------------------------------------------
(* TextElem::from_node applied to the children of a paragraph.             *)

\* The most children a paragraph of the model has.
MaxInline == 2

\* "a", "*e*", "**10 min**", "**1.5 h**", "**1 g**", "**x**", "***e***",
\* the emphasis and the strong nodes without child or with two children, an
\* emphasis holding a strong node, and two nodes that are not inline.
InlineKinds ==
    {Text(<<"a">>),
     Emphasis(<<>>), Emphasis(<<Text(<<"e">>)>>),
     Emphasis(<<Strong(<<Text(<<"e">>)>>)>>),
     Emphasis(<<Text(<<"e">>), Text(<<"f">>)>>),
     Strong(<<>>), Strong(<<Text(<<"1", "0", " ", "m", "i", "n">>)>>),
     Strong(<<Text(<<"1", ".", "5", " ", "h">>)>>),
     Strong(<<Text(<<"1", " ", "g">>)>>), Strong(<<Text(<<"x">>)>>),
     Strong(<<Emphasis(<<Text(<<"e">>)>>)>>),
     Strong(<<Text(<<"1", " ", "s">>), Text(<<"f">>)>>),
     ThematicBreak, ParagraphNode}

InitInline ==
    /\ nodes \in {PlaceAll(ns, <<>>) : ns \in SeqsUpTo(InlineKinds, MaxInline) \ {<<>>}}
    /\ idx = 0
    /\ consumed = <<>>
    /\ last = NoCall
    /\ parsed = NotParsed
    /\ NoIngredientInput

\* TextElem::from_node on the i-th child.
TextElemFromNode ==
    /\ \E i \in 1..Len(nodes) :
          parsed' = Parsed("TextElem::from_node", TextElem_from_node(nodes[i]), i)
    /\ UNCHANGED <<nodes, idx, consumed, last, text, ingr, opts>>

NextInline == TextElemFromNode

SpecInline == InitInline /\ [][NextInline]_vars

----------------------------------------------------------------------------
(* The decoders of units applied to a token, and the parsers of quantities *)
(* and sanitize applied to a text.                                         *)

\* The most spaces before, between and after the amount and the unit.
MaxPad == 1

UpperChar(c) == IF \E i \in 1..Len(Lower) : Lower[i] = c
                THEN Upper[CHOOSE i \in 1..Len(Lower) : Lower[i] = c] ELSE c

to_uppercase(s) == [i \in 1..Len(s) |-> UpperChar(s[i])]

\* The texts of amounts of the tests, good and bad.
AmountTexts ==
    {<<>>, <<"3">>, <<"1", ".", "5">>, <<"1", ",", "5">>,
     <<"1", ".", "5", ".", "1">>, <<"2", "1", "2">>}

\* The tokens of the match arms of every decoder, no token, and tokens of
\* no decoder.
TableTokens ==
    {row[1] : row \in MassTable \cup VolumeTable \cup DistanceTable
                         \cup TemperatureTable \cup TimeTable \cup DecodeTable}

UnitTokens ==
    TableTokens \cup {to_uppercase(t) : t \in TableTokens}
        \cup {<<>>, <<"m", "L">>, <<"M", "l">>, <<"b", "u", "n", "c", "h">>,
              <<"B", "u", "n", "c", "h">>, <<DEG>>}

Pad(k) == [i \in 1..k |-> " "]

\* A token with spaces before and after it.
UnitTexts ==
    {Pad(a) \o unit \o Pad(b) : unit \in UnitTokens, a \in 0..MaxPad, b \in 0..MaxPad}

\* An amount and a unit, with spaces around and between them.
QuantityTexts ==
    {Pad(a) \o amount \o Pad(b) \o unit \o Pad(a) :
        amount \in AmountTexts, unit \in UnitTokens, a \in 0..MaxPad, b \in 0..MaxPad}

InitUnit ==
    /\ text \in UnitTexts
    /\ ingr = NotCalledIngr
    /\ opts = NotCalledOpts
    /\ parsed = NotParsed
    /\ NoCursor

InitQuantity ==
    /\ text \in QuantityTexts
    /\ ingr = NotCalledIngr
    /\ opts = NotCalledOpts
    /\ parsed = NotParsed
    /\ NoCursor

\* A call of fn on arg, for the family of units T when fn is generic, and
\* what it returned.
Applied(fn, family, arg, r) ==
    [fn |-> fn, family |-> family, arg |-> arg, ok |-> r.ok, val |-> r.val,
     err |-> r.err, idx |-> 0]

UnitFrom ==
    /\ parsed' = Applied("Unit::from", "", text, Ok(Unit_from(text)))
    /\ UNCHANGED <<nodes, idx, consumed, last, text, ingr, opts>>

UnitDecode ==
    /\ parsed' = Applied("Unit::decode", "", text, Ok(Unit_decode(text)))
    /\ UNCHANGED <<nodes, idx, consumed, last, text, ingr, opts>>

QuantityFromStr ==
    /\ parsed' = Applied("Quantity::from_str", "", text, Quantity_from_str(text))
    /\ UNCHANGED <<nodes, idx, consumed, last, text, ingr, opts>>

QuantityOfFromStr ==
    /\ \E family \in Range(FamilyOrder) :
          parsed' = Applied("QuantityOf::from_str", family, text,
                            QuantityOf_from_str(family, text))
    /\ UNCHANGED <<nodes, idx, consumed, last, text, ingr, opts>>

\* Quantity::sanitize on a quantity that was returned.
QuantitySanitize ==
    /\ parsed.fn \in {"Quantity::from_str", "Quantity::sanitize"}
    /\ parsed.ok
    /\ parsed' = Applied("Quantity::sanitize", "", parsed.val,
                         Ok(Quantity_sanitize(parsed.val)))
    /\ UNCHANGED <<nodes, idx, consumed, last, text, ingr, opts>>

\* QuantityOf::sanitize on a quantity that was returned.
QuantityOfSanitize ==
    /\ parsed.fn \in {"QuantityOf::from_str", "QuantityOf::sanitize"}
    /\ parsed.ok
    /\ parsed' = Applied("QuantityOf::sanitize", parsed.family, parsed.val,
                         Ok(QuantityOf_sanitize(parsed.family, parsed.val)))
    /\ UNCHANGED <<nodes, idx, consumed, last, text, ingr, opts>>

NextUnit == UnitFrom \/ UnitDecode

SpecUnit == InitUnit /\ [][NextUnit]_vars

NextQuantity ==
    \/ QuantityFromStr
    \/ QuantityOfFromStr
    \/ QuantitySanitize
    \/ QuantityOfSanitize

SpecQuantity == InitQuantity /\ [][NextQuantity]_vars

----------------------------------------------------------------------------
(* The helpers get_heading and expect_children applied to a node.          *)

\* "## Steps x" read as two texts, and the text "Steps" alone.
H2TwoTexts == Heading(2, <<Text(StepsName), Text(<<"x">>)>>)
TextSteps == Text(StepsName)

HelperKinds ==
    {H1Title, H1Empty, H2Ingredients, H2Steps, H2Emphasis, H2TwoTexts, H3Group,
     ParagraphNode, TextSteps, ListGood, Emphasis(<<>>), ThematicBreak}

\* The nodes are those of a document, or nodes built without position.
InitHelper ==
    /\ nodes \in {PlaceAll(<<n>>, <<>>) : n \in HelperKinds} \cup {<<n>> : n \in HelperKinds}
    /\ idx = 0
    /\ consumed = <<>>
    /\ last = NoCall
    /\ parsed = NotParsed
    /\ NoIngredientInput

\* get_heading on the i-th node.
GetHeading ==
    /\ \E i \in 1..Len(nodes), depth \in 1..MaxDepth,
          name \in {NoneText, Some(IngredientsName), Some(StepsName)} :
          parsed' = [Applied("get_heading", "", [node |-> nodes[i], depth |-> depth,
                                                 name |-> name],
                             get_heading(nodes[i], depth, name)) EXCEPT !.idx = i]
    /\ UNCHANGED <<nodes, idx, consumed, last, text, ingr, opts>>

\* expect_children on the i-th node: the call returns or panics.
ExpectChildren ==
    /\ \E i \in 1..Len(nodes), num \in 0..MaxInline :
          parsed' = LetIn(expect_children(nodes[i], num),
                          LAMBDA r : [fn |-> "expect_children", family |-> "",
                                      arg |-> [node |-> nodes[i], num |-> num],
                                      ok |-> r.ok, panic |-> r.panic, val |-> <<>>,
                                      err |-> r.err, idx |-> i])
    /\ UNCHANGED <<nodes, idx, consumed, last, text, ingr, opts>>

NextHelper == GetHeading \/ ExpectChildren

SpecHelper == InitHelper /\ [][NextHelper]_vars

----------------------------------------------------------------------------
(* The parsers of the metadata applied to YAML values and to texts.        *)

\* The most characters after the first of a tag, and the most entries of a
\* mapping.
MaxTagLen == 2
MaxEntries == 2

TagChars == {"#", "t", "1", "/", "-", "_", " ", "."}

\* The tags: with or without '#', then any characters.
TagTexts ==
    {prefix \o body : prefix \in {<<>>, <<"#">>}, body \in SeqsUpTo(TagChars, MaxTagLen)}

\* "#t-a_g", a good tag.
GoodTag == YString(<<"#", "t", "-", "a", "_", "g">>)

\* The values given for the tags: a sequence of a tag, with or without a
\* good or a bad item before and after it, and values that are no sequence.
TagValues ==
    {YSequence(before \o <<YString(tag)>> \o after) :
        before \in {<<>>, <<GoodTag>>}, tag \in TagTexts,
        after \in {<<>>, <<GoodTag>>, <<YString(<<"t">>)>>, <<YInteger>>}}
      \cup {YSequence(<<>>), YString(<<"#", "t">>), YInteger}

\* The texts of sizes: an amount, a unit, and '°' or not, with spaces.
SizeTexts ==
    {Pad(a) \o amount \o unit \o Pad(b) \o deg \o Pad(c) :
        amount \in {<<>>, <<"1", "0">>, <<"1", ",", "5">>},
        unit \in {<<>>, <<"c", "m">>, <<"C", "M">>, <<"m", "m">>, <<"i", "n">>, <<"m", "L">>},
        deg \in {<<>>, <<DEG>>, <<DEG, DEG>>},
        a \in 0..MaxPad, b \in 0..MaxPad, c \in 0..MaxPad}

\* An entry of the mapping.
Entry(key, value) == [key |-> key, value |-> value]

PanKey == SIZE_PREFIX \o <<"p", "a", "n">>

\* The entries of tests::parse_metadata, and entries that fail.
Entries ==
    {Entry(YString(TAGS), YSequence(<<GoodTag, GoodTag>>)),
     Entry(YString(TAGS), YSequence(<<GoodTag, YString(<<"#", "t", " ">>)>>)),
     Entry(YString(TAGS), YSequence(<<YString(<<"t">>), GoodTag>>)),
     Entry(YString(TAGS), YSequence(<<YString(<<"#", "t", "#">>)>>)),
     Entry(YString(TAGS), YSequence(<<GoodTag, YString(<<"#", "t", ".">>), GoodTag>>)),
     Entry(YString(QUANTITY), YString(<<"1", "5", "0", "m", "l">>)),
     Entry(YString(QUANTITY), YString(<<"x">>)),
     Entry(YString(PanKey), YString(<<"1", "0", "c", "m", DEG>>)),
     Entry(YString(PanKey), YString(<<"1", "0", "m", "L", DEG>>)),
     Entry(YString(SIZE_PREFIX), YString(<<"1", "0", "c", "m">>)),
     Entry(YString(<<"r">>), YString(<<"s">>)),
     Entry(YString(<<"r">>), YInteger),
     Entry(YInteger, YString(<<"s">>))}

\* The mappings: the keys of a mapping differ.
Mappings ==
    {m \in SeqsUpTo(Entries, MaxEntries) :
        \A i, j \in 1..Len(m) : i # j => m[i].key # m[j].key}

\* The documents saphyr loads: one mapping, none, two, or no mapping.
MetadataDocuments ==
    {<<YMapping(m)>> : m \in Mappings}
        \cup {<<>>, <<YMapping(<<>>), YMapping(<<>>)>>, <<YSequence(<<>>)>>}

InitMetadata ==
    /\ parsed = NotParsed
    /\ NoCursor
    /\ NoIngredientInput

\* Every call below is made once, on what Metadata::default() holds: the
\* calls share no state.
\* Metadata::parse_tags on the tags of Metadata::default().
ParseTags ==
    /\ parsed = NotParsed
    /\ \E value \in TagValues :
          parsed' = LetIn(parse_tags(value, Metadata_default.tags),
                          LAMBDA r : Applied("Metadata::parse_tags", "", value,
                                             [ok |-> r.ok, val |-> r.out, err |-> r.err]))
    /\ UNCHANGED <<nodes, idx, consumed, last, text, ingr, opts>>

SizeInfoFromStr ==
    /\ parsed = NotParsed
    /\ \E s \in SizeTexts :
          parsed' = Applied("SizeInfo::from_str", "", s, SizeInfo_from_str(s))
    /\ UNCHANGED <<nodes, idx, consumed, last, text, ingr, opts>>

\* Metadata::parse_size on the sizes of Metadata::default().
ParseSize ==
    /\ parsed = NotParsed
    /\ \E key \in {<<>>, <<"p", "a", "n">>},
          value \in {YString(<<"1", "0", "c", "m">>), YString(<<"1", "0">>), YInteger} :
          parsed' = LetIn(parse_size(key, value, Metadata_default.sizes),
                          LAMBDA r : Applied("Metadata::parse_size", "",
                                             [key |-> key, value |-> value],
                                             [ok |-> r.ok, val |-> r.out, err |-> r.err]))
    /\ UNCHANGED <<nodes, idx, consumed, last, text, ingr, opts>>

MetadataParse ==
    /\ parsed = NotParsed
    /\ \E metadata \in MetadataDocuments :
          parsed' = Applied("Metadata::parse", "", metadata, Metadata_parse(metadata))
    /\ UNCHANGED <<nodes, idx, consumed, last, text, ingr, opts>>

NextMetadata == ParseTags \/ SizeInfoFromStr \/ ParseSize \/ MetadataParse

SpecMetadata == InitMetadata /\ [][NextMetadata]_vars

----------------------------------------------------------------------------
(* The cursor at work on the sections of a recipe: the calls of            *)
(* Recipe::from_mdast one at a time, in any order, and the whole of it.    *)

InitSections ==
    /\ nodes \in {PlaceAll(ns, <<>>) :
                     ns \in SeqsUpTo(CursorKinds, MaxNodes) \cup ComposedRecipes}
    /\ idx = 0
    /\ consumed = <<>>
    /\ last = NoCall
    /\ parsed = NotParsed
    /\ NoIngredientInput

\* Recipe::from_mdast makes a cursor of its own on the nodes.
SectionsFromMdast ==
    /\ parsed' = LetIn(Recipe_from_mdast(nodes),
                       LAMBDA r : Parsed("Recipe::from_mdast", r, r.idx))
    /\ UNCHANGED <<nodes, idx, consumed, last, text, ingr, opts>>

NextSections == ConsumeNext \/ ConsumeToNextHeading \/ SectionsFromMdast

SpecSections == InitSections /\ [][NextSections]_vars

----------------------------------------------------------------------------
(* Claims about the parsers of a document.                                 *)

\* A heading of the given depth whose only child is a text.
C_TextHeading(n, depth) ==
    /\ n.kind = "Heading"
    /\ n.depth = depth
    /\ Len(n.children) = 1
    /\ n.children[1].kind = "Text"

\* The top-level nodes are: a depth-1 heading with one text child, the
\* depth-2 heading "Ingredients", a run without depth-2 heading that parses
\* as the ingredients, and the depth-2 heading "Steps" at index j.
C_RecipeShape(ns, j) ==
    /\ j \in 3..Len(ns)
    /\ C_TextHeading(ns[1], 1)
    /\ C_TextHeading(ns[2], 2)
    /\ ns[2].children[1].value = IngredientsName
    /\ \A k \in 3..(j - 1) : ~(ns[k].kind = "Heading" /\ ns[k].depth = 2)
    /\ IngredientList_from_mdast(Slice(ns, 3, j - 1)).ok
    /\ C_TextHeading(ns[j], 2)
    /\ ns[j].children[1].value = StepsName

\* C1: Recipe::from_mdast returns Ok exactly when the top-level nodes have
\* the shape of a recipe, the name returned being the text of the first
\* heading; on every other sequence it returns an error.
C1_RecipeShape ==
    parsed.fn = "Recipe::from_mdast" =>
        /\ parsed.ok <=> \E j \in 1..Len(nodes) : C_RecipeShape(nodes, j)
        /\ parsed.ok => parsed.val.name = nodes[1].children[1].value
        /\ Len(nodes) = 0 => ~parsed.ok

\* C1 witness: a recipe returned with its ingredients.
C1_Witness ==
    /\ parsed.fn = "Recipe::from_mdast"
    /\ parsed.ok
    /\ Len(parsed.val.ingredients) >= 2
    /\ parsed.val.name = <<"T">>

\* C2: whenever Recipe::from_mdast returns Ok, its cursor has consumed every
\* top-level node.
C2_NoLeftover ==
    (parsed.fn = "Recipe::from_mdast" /\ parsed.ok) => parsed.idx = Len(nodes)

RECURSIVE C_Flatten(_)
C_Flatten(ss) == IF ss = <<>> THEN <<>> ELSE Head(ss) \o C_Flatten(Tail(ss))

\* The error of a check, if it fails.
C_ErrorOf(r) == IF r.ok THEN <<>> ELSE <<r.err>>

\* The errors of all the checks of Recipe::from_mdast that fail, in the
\* order of the pipeline: the name, the "Ingredients" heading, the
\* ingredients item by item, the "Steps" heading.
C_OldListErrors(run) ==
    IF Len(run) = 0 THEN <<>>
    ELSE IF Len(run) # 1 \/ run[1].kind # "List"
    THEN C_ErrorOf(IngredientList_from_mdast(run))
    ELSE C_Flatten([i \in 1..Len(run[1].children) |->
                       C_ErrorOf(IngredientOfItem(run[1].children[i]))])

C_HeadingErrors(ns, k, depth, name) ==
    IF k > Len(ns) THEN <<MDErrorNone(<<"EOF">>)>>
    ELSE C_ErrorOf(get_heading(ns[k], depth, name))

C_RecipeErrors(ns) ==
    LET stops == {k \in 3..Len(ns) : ns[k].kind = "Heading" /\ ns[k].depth = 2}
        j == IF stops = {} THEN Len(ns) + 1 ELSE Min(stops)
    IN  C_HeadingErrors(ns, 1, 1, NoneText)
            \o C_HeadingErrors(ns, 2, 2, Some(IngredientsName))
            \o C_OldListErrors(Slice(ns, 3, j - 1))
            \o C_HeadingErrors(ns, j, 2, Some(StepsName))

\* The errors of all the checks of Ingredients::parse that fail, group by
\* group, the heading of a group before its items, item by item.
C_ListErrors(node) ==
    IF node.kind # "List" THEN C_ErrorOf(parse_ingredient_list(node))
    ELSE C_Flatten([i \in 1..Len(node.children) |->
                       C_ErrorOf(IngredientOptions_parse(node.children[i]))])

C_IngredientsErrors(ns) ==
    IF Len(ns) = 0 THEN <<>>
    ELSE IF Len(ns) = 1 THEN C_ListErrors(ns[1])
    ELSE C_Flatten([c \in 1..((Len(ns) + 1) \div 2) |->
             IF 2 * c > Len(ns) THEN <<MDErrorAt(<<"malformed ingredient group">>, ns[2 * c - 1])>>
             ELSE C_ErrorOf(get_heading(ns[2 * c - 1], 3, NoneText))
                      \o C_ListErrors(ns[2 * c])])

\* The errors of all the checks of Instructions::from_mdast that fail, step
\* by step, the description of a step before its substeps.
C_DescriptionErrors(node) ==
    IF node.kind # "Paragraph" THEN C_ErrorOf(parse_description(node))
    ELSE C_Flatten([i \in 1..Len(node.children) |->
                       C_ErrorOf(TextElem_from_node(node.children[i]))])

RECURSIVE C_StepErrors(_), C_StepListErrors(_)
C_StepErrors(node) ==
    IF node.kind # "ListItem" \/ Len(node.children) > 2 THEN C_ErrorOf(parse_step(node))
    ELSE IF Len(node.children) = 0 THEN <<>>
    ELSE IF Len(node.children) = 1 THEN C_DescriptionErrors(node.children[1])
    ELSE C_DescriptionErrors(node.children[1]) \o C_StepListErrors(node.children[2])
C_StepListErrors(node) ==
    IF node.kind # "List" THEN C_ErrorOf(parse_step_list(node))
    ELSE C_Flatten([i \in 1..Len(node.children) |-> C_StepErrors(node.children[i])])

C_InstructionsErrors(ns) ==
    IF Len(ns) = 0 THEN <<>>
    ELSE IF Len(ns) = 1 THEN C_StepListErrors(ns[1])
    ELSE <<MDErrorNone(<<"expected single list node for steps">>)>>

C_Errors ==
    CASE parsed.fn = "Recipe::from_mdast" -> C_RecipeErrors(nodes)
      [] parsed.fn = "Ingredients::parse" -> C_IngredientsErrors(nodes)
      [] parsed.fn = "Instructions::from_mdast" -> C_InstructionsErrors(nodes)
      [] OTHER -> <<>>

\* C3: the error a parser returns is that of the first check that fails, in
\* the order of the pipeline; it returns Ok when no check fails; an error
\* comes with no value, and a value with no error.
C3_FirstFailureWins ==
    parsed.fn # "none" =>
        /\ parsed.ok <=> C_Errors = <<>>
        /\ ~parsed.ok => parsed.err = C_Errors[1] /\ parsed.val = <<>>
        /\ parsed.ok => parsed.err = NoError

\* C3 witness: an error returned when three checks or more fail, the first
\* and the last with different errors.
C3_Witness ==
    /\ parsed.fn = "Instructions::from_mdast"
    /\ ~parsed.ok
    /\ Len(C_Errors) >= 3
    /\ C_Errors[1] # C_Errors[Len(C_Errors)]
    /\ C_Errors[1] # C_Errors[2]

----------------------------------------------------------------------------
(* Claims about the cursor.                                                *)

\* C4: consume_to_next_heading(depth) called at index i returns exactly the
\* nodes i..j-1 and leaves the cursor at j, the first index at or after i
\* holding a heading of that depth, or the end when there is none; at the end
\* it returns nothing and does not move.  Headings of another depth are
\* returned like any other node.
C4_ConsumeToNextHeading ==
    last.op = "consume_to_next_heading" =>
        LET i == last.from
            stops == {j \in i..(Len(nodes) - 1) :
                        nodes[j + 1].kind = "Heading" /\ nodes[j + 1].depth = last.depth}
            j == IF stops = {} THEN Len(nodes)
                 ELSE CHOOSE a \in stops : \A b \in stops : a <= b
        IN  /\ last.ok
            /\ last.ret = [k \in 1..(j - i) |-> nodes[i + k]]
            /\ idx = j
            /\ (i = Len(nodes) => last.ret = <<>> /\ idx = i)

\* C4 witness: a call that returned a heading of another depth inside a
\* non-empty run and stopped on a heading of the requested depth.
C4_Witness ==
    /\ last.op = "consume_to_next_heading"
    /\ idx < Len(nodes)
    /\ \E k \in 1..Len(last.ret) :
          last.ret[k].kind = "Heading" /\ last.ret[k].depth # last.depth
    /\ \E k \in 1..Len(last.ret) : last.ret[k].kind # "Heading"

\* C5: consume_next at index i < len returns node i and moves to i + 1; at the
\* end it returns the EOF error, without a position, and does not move, so
\* that every later consume_next returns EOF too.
C5_ConsumeNext ==
    /\ [](last.op = "consume_next" =>
            IF last.from < Len(nodes)
            THEN /\ last.ok
                 /\ last.ret = <<nodes[last.from + 1]>>
                 /\ idx = last.from + 1
            ELSE /\ ~last.ok
                 /\ last.err = [msg |-> <<"EOF">>, place |-> <<>>]
                 /\ last.ret = <<>>
                 /\ idx = last.from)
    /\ [][(last.op = "consume_next" /\ ~last.ok) => idx' = Len(nodes')]_vars

\* C5 witness: an EOF answer on a non-empty sequence, after nodes were taken.
C5_Witness ==
    /\ last.op = "consume_next"
    /\ ~last.ok
    /\ Len(nodes) >= 2
    /\ Len(consumed) = Len(nodes)

\* C6: the index never decreases and stays within 0..len; what the consuming
\* calls returned, in call order, is exactly nodes[0..idx], so no node is
\* returned twice; get_remaining returns nodes[idx..] and does not move.
C6_OnePass ==
    /\ [](/\ idx \in 0..Len(nodes)
          /\ consumed = [k \in 1..idx |-> nodes[k]]
          /\ \A a, b \in 1..Len(consumed) : a # b => consumed[a] # consumed[b]
          /\ (last.op = "get_remaining" =>
                /\ idx = last.from
                /\ last.ret = [k \in 1..(Len(nodes) - idx) |-> nodes[idx + k]]))
    /\ [][idx' >= idx]_vars

\* C6 witness: get_remaining called in the middle of a sequence, after both
\* consuming calls had returned nodes.
C6_Witness ==
    /\ last.op = "get_remaining"
    /\ idx >= 2
    /\ idx < Len(nodes)
    /\ Len(last.ret) >= 1

----------------------------------------------------------------------------
(* Claims about the ingredient grammar.                                    *)

\* The 0-based offset of the last occurrence of c in s, -1 when there is none.
C_rfind(s, c) ==
    LetIn({i \in 1..Len(s) : s[i] = c}, LAMBDA hits : IF hits = {} THEN -1 ELSE Max(hits) - 1)

\* The text left once a trailing "( ... )" is cut off at its last '('.
C_BeforeInfo(t) ==
    IF ends_with(t, ")") /\ C_rfind(t, "(") >= 0 THEN Slice(t, 1, C_rfind(t, "(")) ELSE t

\* The part of a text that stands for the name: in front of the trailing
\* info and of the first ','.
C_NamePart(txt) ==
    LET rest == C_BeforeInfo(trim(txt))
    IN  IF find(rest, ",") >= 0 THEN Slice(rest, 1, find(rest, ",")) ELSE rest

C_GoodIngredient(v) ==
    /\ trim(v.name) # <<>>
    /\ ~ContainsAny(v.name, {",", "|", "/", "(", ")"})
    /\ v.info.some => ~ContainsAny(v.info.v, {"|", "(", ")"})

\* C7: every ingredient returned, alone or as the primary or an alternative
\* of returned options, has a name that is not blank and holds none of
\* , | / ( ) and an info, when present, that holds none of | ( ); a text
\* whose name part is blank or that holds a '|' is an error.
C7_IngredientInvariant ==
    /\ (ingr.called /\ ingr.ok) => C_GoodIngredient(ingr.val)
    /\ (opts.called /\ opts.ok) =>
          /\ C_GoodIngredient(opts.val.ingredient)
          /\ \A i \in 1..Len(opts.val.alternatives.v) :
                C_GoodIngredient(opts.val.alternatives.v[i])
    /\ (ingr.called /\ (trim(C_NamePart(text)) = <<>> \/ contains(text, "|"))) => ~ingr.ok
    /\ (ingr.called /\ text \in {C_TextEmpty, C_TextNoName, C_TextBarInName}) => ~ingr.ok

\* C7 witness: options returned with an alternative, the primary carrying an
\* info and a quantity.
C7_Witness ==
    /\ opts.called
    /\ opts.ok
    /\ opts.val.alternatives.some
    /\ opts.val.ingredient.info.some
    /\ opts.val.ingredient.quantity.some

C_BadSegment(seg) ==
    \/ ContainsAny(seg, {",", "|", "/", "(", ")"})
    \/ ~Quantity_from_str(trim(seg)).ok

C_Volume(unit, n) == [unit |-> UnitOf("Volume", unit), amount |-> [num |-> n, den |-> 1]]

\* C8: when the text left in front of the info holds a ',', the name is what
\* stands before the first ',' and what stands after it is split on '/':
\* the first segment is the quantity, the others are the alt_quantities in
\* order (None when there is one segment only); a segment that holds one of
\* , | / ( ) or is not a Quantity once trimmed is an error.
C8_QuantitySegments ==
    ingr.called =>
        LET rest == C_BeforeInfo(trim(text))
            k == find(rest, ",")
            segs == split(Slice(rest, k + 2, Len(rest)), "/")
            Q(i) == Quantity_from_str(trim(segs[i])).val
        IN  /\ k >= 0 =>
                /\ (\E i \in 1..Len(segs) : C_BadSegment(segs[i])) => ~ingr.ok
                /\ ingr.ok =>
                      /\ ingr.val.name = trim(Slice(rest, 1, k))
                      /\ ingr.val.quantity = Some(Q(1))
                      /\ ingr.val.alt_quantities =
                            IF Len(segs) = 1 THEN NoneSeq
                            ELSE Some([i \in 1..(Len(segs) - 1) |-> Q(i + 1)])
            /\ (k < 0 /\ ingr.ok) =>
                  ingr.val.quantity = NoneQuantity /\ ingr.val.alt_quantities = NoneSeq
            /\ text \in {C_TextTwoCommas, C_TextEmptyAlt, C_TextDoubleSlash, C_TextLetterFirst}
                  => ~ingr.ok
            /\ text = C_TextAlts =>
                  /\ ingr.ok
                  /\ ingr.val.quantity = Some(C_Volume("Milliliter", 15))
                  /\ ingr.val.alt_quantities =
                        Some(<<C_Volume("Teaspoon", 3), C_Volume("Tablespoon", 1)>>)

\* C8 witness: an ingredient returned with a quantity, two alt_quantities that
\* differ, and an info.
C8_Witness ==
    /\ ingr.called
    /\ ingr.ok
    /\ ingr.val.quantity.some
    /\ Len(ingr.val.alt_quantities.v) >= 2
    /\ ingr.val.alt_quantities.v[1] # ingr.val.alt_quantities.v[2]
    /\ ingr.val.info.some

\* C9: an ingredient returned has an info iff the trimmed text ends with ')';
\* the info is the trimmed text between the last '(' and that ')', and the
\* name and the quantities are those of the text in front of that '('.  A
\* final ')' without a '(' is an error, and so is an info holding | ( or ).
\* A ',' inside the info separates nothing.
C9_TrailingInfo ==
    ingr.called =>
        LET t == trim(text)
            open == C_rfind(t, "(")
            rest == Slice(t, 1, open)
            info == trim(Slice(t, open + 2, Len(t) - 1))
        IN  /\ ingr.ok => (ingr.val.info.some <=> ends_with(t, ")"))
            /\ ~ends_with(t, ")") /\ ingr.ok => ingr.val.info = NoneText
            /\ ends_with(t, ")") /\ open < 0 => ~ingr.ok
            /\ ends_with(t, ")") /\ open >= 0 /\ ContainsAny(info, {"|", "(", ")"}) => ~ingr.ok
            /\ ends_with(t, ")") /\ ingr.ok =>
                  /\ ingr.val.info = Some(info)
                  /\ ingr.val.name = trim(C_NamePart(rest))
                  /\ ingr.val.quantity.some <=> contains(rest, ",")
            /\ text \in {C_TextUnclosedInfo, C_TextUnopenedInfo, C_TextNestedInfo} => ~ingr.ok

\* C9 witness: an ingredient returned without a quantity whose info holds
\* a ',' and was trimmed.
C9_Witness ==
    /\ ingr.called
    /\ ingr.ok
    /\ ingr.val.info.some
    /\ contains(ingr.val.info.v, ",")
    /\ ~ingr.val.quantity.some
    /\ \E i \in 1..Len(text) : text[i] = "(" /\ i < Len(text) /\ text[i + 1] = " "

\* A text with a space added on both sides.
C_Padded(piece) == <<" ">> \o piece \o <<" ">>

\* C10: the pieces of the text between '|' are parsed as ingredients, the
\* first as the primary and the others, in order, as the alternatives (None
\* when there is one piece only); the call fails iff a piece fails, a blank
\* piece among them; spaces around the bars change nothing.
C10_Options ==
    opts.called =>
        LET pieces == split(text, "|")
            R(i) == Ingredient_from_str(pieces[i])
        IN  /\ opts.ok <=> \A i \in 1..Len(pieces) : R(i).ok
            /\ (\E i \in 1..Len(pieces) : trim(pieces[i]) = <<>>) => ~opts.ok
            /\ opts.ok =>
                  /\ opts.val.ingredient = R(1).val
                  /\ opts.val.alternatives =
                        IF Len(pieces) = 1 THEN NoneSeq
                        ELSE Some([i \in 1..(Len(pieces) - 1) |-> R(i + 1).val])
            /\ Called(IngredientOptions_from_str(
                   Join([i \in 1..Len(pieces) |-> C_Padded(pieces[i])], "|"))) = opts

\* C10 witness: options returned with two alternatives that differ, from a
\* text with a space next to a bar.
C10_Witness ==
    /\ opts.called
    /\ opts.ok
    /\ Len(opts.val.alternatives.v) >= 2
    /\ opts.val.alternatives.v[1] # opts.val.alternatives.v[2]
    /\ \E i \in 1..(Len(text) - 1) : text[i] = " " /\ text[i + 1] = "|"

----------------------------------------------------------------------------
(* Claims about the sections of a document.                                *)

\* A list item with exactly one child, a paragraph holding one text that
\* parses as ingredient options.
C_IngredientItem(item) ==
    /\ item.kind = "ListItem"
    /\ Len(item.children) = 1
    /\ item.children[1].kind = "Paragraph"
    /\ Len(item.children[1].children) = 1
    /\ item.children[1].children[1].kind = "Text"
    /\ IngredientOptions_from_str(item.children[1].children[1].value).ok

\* A list of such items.
C_IngredientList(node) ==
    /\ node.kind = "List"
    /\ \A i \in 1..Len(node.children) : C_IngredientItem(node.children[i])

\* One IngredientOptions per item of the list, in order.
C_OptionsOfList(node) ==
    [i \in 1..Len(node.children) |->
        IngredientOptions_from_str(node.children[i].children[1].children[1].value).val]

\* C11: Ingredients::parse gives an empty flat list on no node; on one node
\* it gives the flat list of the options of the items, in order, and fails
\* unless the node is a list of items holding one paragraph each; on two
\* nodes or more it gives one group per (depth-3 heading, list) pair, in
\* order, and fails when the number of nodes is odd, when the first node of
\* a pair is not a depth-3 heading with one text child or when the second is
\* not such a list.
C11_IngredientsParse ==
    parsed.fn = "Ingredients::parse" =>
        LET n == Len(nodes)
            pairs == 1..(n \div 2)
        IN  /\ n = 0 => parsed.ok /\ parsed.val = [kind |-> "IngredientList", items |-> <<>>]
            /\ n = 1 =>
                  /\ parsed.ok <=> C_IngredientList(nodes[1])
                  /\ parsed.ok => parsed.val = [kind |-> "IngredientList",
                                                items |-> C_OptionsOfList(nodes[1])]
            /\ n >= 2 =>
                  /\ parsed.ok <=>
                        /\ n % 2 = 0
                        /\ \A c \in pairs : /\ C_TextHeading(nodes[2 * c - 1], 3)
                                            /\ C_IngredientList(nodes[2 * c])
                  /\ n % 2 = 1 =>
                        /\ ~parsed.ok
                        /\ (\A c \in pairs : /\ C_TextHeading(nodes[2 * c - 1], 3)
                                             /\ C_IngredientList(nodes[2 * c]))
                              => parsed.err = MDErrorAt(<<"malformed ingredient group">>,
                                                        nodes[n])
                  /\ parsed.ok =>
                        /\ parsed.val.kind = "IngredientGroups"
                        /\ parsed.val.items =
                              [c \in pairs |->
                                  [name |-> nodes[2 * c - 1].children[1].value,
                                   ingredients |-> C_OptionsOfList(nodes[2 * c])]]

\* C11 witness: two groups returned, the second with two ingredients.
C11_Witness ==
    /\ parsed.fn = "Ingredients::parse"
    /\ parsed.ok
    /\ parsed.val.kind = "IngredientGroups"
    /\ Len(parsed.val.items) = 2
    /\ Len(parsed.val.items[2].ingredients) = 2


RECURSIVE C_GoodStep(_), C_GoodStepList(_)
\* A list item with at most two children: a paragraph that parses as a
\* description, then a list of such items.
C_GoodStep(item) ==
    /\ item.kind = "ListItem"
    /\ Len(item.children) <= 2
    /\ Len(item.children) >= 1 =>
          /\ item.children[1].kind = "Paragraph"
          /\ parse_description(item.children[1]).ok
    /\ Len(item.children) = 2 => C_GoodStepList(item.children[2])
C_GoodStepList(node) ==
    /\ node.kind = "List"
    /\ \A i \in 1..Len(node.children) : C_GoodStep(node.children[i])

RECURSIVE C_Mirrors(_, _)
\* The steps are those of the items of the list, in order: the description
\* is that of the first child, the substeps those of the second.
C_Mirrors(steps, node) ==
    /\ Len(steps) = Len(node.children)
    /\ \A i \in 1..Len(steps) :
          LET item == node.children[i]
          IN  /\ steps[i].description =
                    IF Len(item.children) = 0 THEN <<>>
                    ELSE parse_description(item.children[1]).val
              /\ IF Len(item.children) = 2
                 THEN C_Mirrors(steps[i].substeps, item.children[2])
                 ELSE steps[i].substeps = <<>>

RECURSIVE C_StepDepth(_), C_ListDepth(_)
\* The depth of a tree of steps, and the nesting depth of a list.
C_StepDepth(steps) ==
    IF steps = <<>> THEN 0
    ELSE 1 + Max({C_StepDepth(steps[i].substeps) : i \in 1..Len(steps)})
C_ListDepth(node) ==
    IF node.children = <<>> THEN 0
    ELSE 1 + Max({IF Len(node.children[i].children) = 2
                  THEN C_ListDepth(node.children[i].children[2]) ELSE 0 :
                     i \in 1..Len(node.children)})

\* C12: Instructions::from_mdast gives no step on no node and fails on two
\* nodes or more; on one node it returns Ok exactly when the node is a list
\* of items of at most two children, a paragraph then a list of the same
\* kind; the steps returned are those of the items, in order, a step without
\* child being empty, and the depth of the tree of steps is the nesting
\* depth of the list.
C12_StepTree ==
    parsed.fn = "Instructions::from_mdast" =>
        /\ Len(nodes) = 0 => parsed.ok /\ parsed.val = <<>>
        /\ Len(nodes) > 1 => ~parsed.ok
        /\ Len(nodes) = 1 =>
              /\ parsed.ok <=> C_GoodStepList(nodes[1])
              /\ parsed.ok =>
                    /\ C_Mirrors(parsed.val, nodes[1])
                    /\ C_StepDepth(parsed.val) = C_ListDepth(nodes[1])

\* C12 witness: a tree of steps of depth three returned, a step with a
\* description and substeps in it, and an empty step.
C12_Witness ==
    /\ parsed.fn = "Instructions::from_mdast"
    /\ parsed.ok
    /\ C_StepDepth(parsed.val) = 3
    /\ parsed.val[1].description # <<>>
    /\ Len(parsed.val[1].substeps) = 2
    /\ parsed.val[2] = StepOf(<<>>, <<>>)


\* C13: TextElem::from_node on a strong node returns the Timer of the
\* Time quantity its text parses as, or an error, never a Text nor an
\* IngredientRef; on a text node it returns the Text; on an emphasis node
\* without child or with one text child it returns the IngredientRef, empty
\* without child; on a node of any other kind it returns the error
\* "unsupported element in step".
C13_TextElem ==
    parsed.fn = "TextElem::from_node" =>
        LET node == nodes[parsed.idx]
        IN  /\ node.kind = "Strong" =>
                  \/ ~parsed.ok
                  \/ /\ parsed.val.kind = "Timer"
                     /\ Len(node.children) = 1
                     /\ node.children[1].kind = "Text"
                     /\ QuantityOf_from_str("Time", node.children[1].value).ok
                     /\ parsed.val.timer =
                           QuantityOf_from_str("Time", node.children[1].value).val
            /\ node.kind = "Text" =>
                  parsed.ok /\ parsed.val = TextElemOf("Text", node.value, NoFamilyQuantity)
            /\ (node.kind = "Emphasis" /\ node.children = <<>>) =>
                  parsed.ok /\ parsed.val = TextElemOf("IngredientRef", <<>>, NoFamilyQuantity)
            /\ (node.kind = "Emphasis" /\ Len(node.children) = 1
                    /\ node.children[1].kind = "Text") =>
                  /\ parsed.ok
                  /\ parsed.val = TextElemOf("IngredientRef", node.children[1].value,
                                             NoFamilyQuantity)
            /\ node.kind \notin {"Strong", "Text", "Emphasis"} =>
                  /\ ~parsed.ok
                  /\ parsed.err = MDErrorAt(<<"unsupported element in step">>, node)


----------------------------------------------------------------------------
(* Claims about units and quantities.                                      *)

\* The index of the first character that is alphabetic or '°', the length
\* plus one when there is none.
C_SplitAt(s) ==
    LET letters == {i \in 1..Len(s) : IsAlphabetic(s[i]) \/ s[i] = DEG}
    IN  IF letters = {} THEN Len(s) + 1 ELSE Min(letters)

\* The amount and the unit token of a text.
C_AmountPart(s) == trim(Slice(s, 1, C_SplitAt(s) - 1))
C_UnitPart(s) == trim(Slice(s, C_SplitAt(s), Len(s)))

\* The text in another letter case, and with other spaces around the amount
\* and the unit.
C_Recased(s) == {to_lowercase(s), to_uppercase(s)}
C_Respaced(s) ==
    {Pad(a) \o C_AmountPart(s) \o Pad(b) \o C_UnitPart(s) \o Pad(c) :
        a \in {0, 2}, b \in {0, 2}, c \in {0, 2}}

\* What Quantity::from_str returns but for letter case and spaces.
C_QuantityParts ==
    LET amount == parse_f32(C_AmountPart(text))
    IN  /\ parsed.ok <=> amount.ok
        /\ parsed.ok =>
              /\ parsed.val.amount = amount.val
              /\ parsed.val.unit = IF C_SplitAt(text) > Len(text) THEN NominalUnit
                                   ELSE Unit_from(C_UnitPart(text))
        /\ ~parsed.ok => parsed.err = amount.err
        /\ (C_AmountPart(text) = <<>> \/ contains(C_AmountPart(text), ",")
                \/ C_AmountPart(text) = <<"1", ".", "5", ".", "1">>) => ~parsed.ok
        /\ \A t \in C_Respaced(text) :
              LET r == Quantity_from_str(t)
              IN  r.ok = parsed.ok /\ r.val = parsed.val /\ r.err = parsed.err

\* C14 as it is stated: Quantity::from_str cuts the text at its first
\* character that is alphabetic or '°', the trimmed amount before and the
\* trimmed unit from there on, decoded by Unit::from, Nominal when there is
\* no such character; it returns Ok iff the amount is a float; the result
\* does not depend on the letter case of the unit nor on the spaces around
\* the amount and the unit.
C14_QuantityAnyCase ==
    parsed.fn = "Quantity::from_str" =>
        /\ C_QuantityParts
        /\ \A t \in C_Recased(text) :
              LET r == Quantity_from_str(t)
              IN  r.ok = parsed.ok /\ r.val = parsed.val

\* C14 amended: as stated, but the result does not depend on the letter case
\* of the unit only when the unit is not Custom; a Custom unit carries the
\* token as it is written, and the amount and the outcome never depend on
\* the letter case.
C14_Quantity ==
    parsed.fn = "Quantity::from_str" =>
        /\ C_QuantityParts
        /\ \A t \in C_Recased(text) :
              LET r == Quantity_from_str(t)
              IN  /\ r.ok = parsed.ok
                  /\ r.val.amount = parsed.val.amount
                  /\ r.val.unit.family = parsed.val.unit.family
                  /\ parsed.ok =>
                        IF parsed.val.unit.family = "Custom"
                        THEN /\ parsed.val.unit = Custom(C_UnitPart(text))
                             /\ r.val.unit = Custom(C_UnitPart(t))
                        ELSE r.val.unit = parsed.val.unit

\* C14 witness: a quantity returned with a Custom unit written with an upper
\* case letter, from a text with spaces around the unit.
C14_Witness ==
    /\ parsed.fn = "Quantity::from_str"
    /\ parsed.ok
    /\ parsed.val.unit = Custom(<<"B", "u", "n", "c", "h">>)
    /\ parsed.val.amount = Frac(3, 2)
    /\ text[Len(text)] = " "


\* The variants a family's table gives for a token: the token is lower-cased
\* and must be equal to an entry; Nominal has the empty token only.
C_VariantsOf(family, token) ==
    IF family = "Nominal" THEN (IF token = <<>> THEN {"Nominal"} ELSE {})
    ELSE {row[2] : row \in {r \in FamilyTable(family) : r[1] = to_lowercase(token)}}

\* C15: QuantityOf<F>::from_str returns InvalidUnit(u), u the trimmed unit
\* token, whenever u is not in the table of F, whatever the amount, the empty
\* token being in the table of Nominal only; otherwise InvalidAmount(a,
\* cause), a the trimmed amount, whenever a is not a float; otherwise Ok with
\* the unit of the family and the amount.  The spaces around and between the
\* amount and the unit change nothing.
C15_QuantityOf ==
    parsed.fn = "QuantityOf::from_str" =>
        LET u == C_UnitPart(text)
            a == C_AmountPart(text)
            units == C_VariantsOf(parsed.family, u)
        IN  /\ units = {} => ~parsed.ok /\ parsed.err = InvalidUnit(u)
            /\ (units # {} /\ ~parse_f32(a).ok) =>
                  ~parsed.ok /\ parsed.err = InvalidAmount(a, parse_f32(a).err)
            /\ (units # {} /\ parse_f32(a).ok) =>
                  /\ parsed.ok
                  /\ units = {parsed.val.unit}
                  /\ parsed.val.amount = parse_f32(a).val
                  /\ parsed.err = NoQuantityOfError
            /\ parsed.err.kind \in {"none", "InvalidUnit", "InvalidAmount"}
            /\ (u = <<>> /\ parsed.family # "Nominal") => parsed.err.kind = "InvalidUnit"
            /\ \A t \in C_Respaced(text) :
                  LET r == QuantityOf_from_str(parsed.family, t)
                  IN  r.ok = parsed.ok /\ r.val = parsed.val /\ r.err = parsed.err

\* C15 witness: InvalidUnit("mL") returned for a mass whose amount is not a
\* float either, from a text that starts with a space.
C15_Witness ==
    /\ parsed.fn = "QuantityOf::from_str"
    /\ parsed.family = "Mass"
    /\ parsed.err = InvalidUnit(<<"m", "L">>)
    /\ ~parse_f32(C_AmountPart(text)).ok
    /\ text[1] = " "


\* The families that have a table.
C_TableFamilies == {"Mass", "Volume", "Distance", "Temperature", "Time"}

\* C16: Unit::from always returns a unit: Nominal iff the token is empty, a
\* unit of a family iff the lower-cased token is equal to an entry of the
\* table of that family, the unit of that entry, and Custom, with the token
\* as it was given, iff every family rejects the token.
C16_UnitFrom ==
    parsed.fn = "Unit::from" =>
        /\ parsed.ok
        /\ parsed.val = NominalUnit <=> text = <<>>
        /\ parsed.val.family \in C_TableFamilies \cup {"Nominal", "Custom"}
        /\ \A family \in C_TableFamilies :
              /\ parsed.val.family = family <=> C_VariantsOf(family, text) # {}
              /\ parsed.val.family = family =>
                    /\ C_VariantsOf(family, text) = {parsed.val.unit}
                    /\ parsed.val.custom = <<>>
        /\ parsed.val.family = "Custom" <=>
              \A family \in C_TableFamilies \cup {"Nominal"} : C_VariantsOf(family, text) = {}
        /\ parsed.val.family = "Custom" => parsed.val = Custom(text)

\* C16 witness: Custom returned with a token written with an upper case
\* letter.
C16_Witness ==
    /\ parsed.fn = "Unit::from"
    /\ parsed.val = Custom(<<"B", "u", "n", "c", "h">>)


\* C17: Unit::from on an entry of a family's table, written in any letter
\* case and with any spaces before and after it, returns the unit of that
\* entry.
C17_AnyCaseAnySpace ==
    parsed.fn = "Unit::from" =>
        \A family \in C_TableFamilies :
            \A row \in FamilyTable(family) :
                to_lowercase(trim(text)) = row[1] => parsed.val = UnitOf(family, row[2])


\* C18: the token "gal", in any letter case, decodes to Gallon and not to
\* Liter, by Unit::from of unit.rs and by Unit::decode of recipe.rs.
C18_Gallon ==
    (parsed.fn \in {"Unit::from", "Unit::decode"}
        /\ to_lowercase(text) = <<"g", "a", "l">>) =>
            /\ parsed.val.unit = "Gallon"
            /\ parsed.val.unit # "Liter"


\* The table of sanitize: the unit, its base unit, and sub, num and den, the
\* base amount being (amount - sub) * num / den.
C_SanitizeTable ==
    {<<"Ounce", "Gram", 0, 28, 1>>,
     <<"Pound", "Gram", 0, 450, 1>>,
     <<"Teaspoon", "Milliliter", 0, 5, 1>>,
     <<"Tablespoon", "Milliliter", 0, 15, 1>>,
     <<"Cup", "Milliliter", 0, 240, 1>>,
     <<"FluidOunce", "Milliliter", 0, 29, 1>>,
     <<"Gallon", "Liter", 0, 3785, 1000>>,
     <<"Inches", "Centimeter", 0, 5, 2>>,
     <<"Farenheit", "Celsius", 32, 5, 9>>}

\* The units sanitize leaves alone.
C_BaseUnits ==
    {"Gram", "Kilogram", "Milliliter", "Centiliter", "Liter", "Millimeter", "Centimeter",
     "Celsius", "Second", "Minute", "Hour", "Nominal", "Custom"}

\* The unit and the amount the table gives.
C_BaseOf(unit, amount) ==
    IF unit \in C_BaseUnits THEN [unit |-> unit, amount |-> amount]
    ELSE LET row == CHOOSE r \in C_SanitizeTable : r[1] = unit
         IN  [unit |-> row[2],
              amount |-> Frac((amount.num - row[3] * amount.den) * row[4],
                              amount.den * row[5])]

\* C19: sanitize always returns a quantity, that of the table: the base unit
\* and the converted amount for the nine units of the table, the same unit
\* and the same amount for every other unit (3 in gives 7.5 cm, 3 nominal
\* gives 3 nominal); Quantity::sanitize and QuantityOf::sanitize agree.
C19_SanitizeTable ==
    /\ parsed.fn = "Quantity::sanitize" =>
          LET base == C_BaseOf(parsed.arg.unit.unit, parsed.arg.amount)
          IN  /\ parsed.ok
              /\ parsed.val.unit.family = parsed.arg.unit.family
              /\ parsed.val.unit.custom = parsed.arg.unit.custom
              /\ parsed.val.unit.unit = base.unit
              /\ parsed.val.amount = base.amount
              /\ parsed.arg = [unit |-> UnitOf("Distance", "Inches"), amount |-> Frac(3, 1)]
                    => parsed.val = [unit |-> UnitOf("Distance", "Centimeter"),
                                     amount |-> Frac(15, 2)]
              /\ parsed.arg = [unit |-> NominalUnit, amount |-> Frac(3, 1)]
                    => parsed.val = parsed.arg
    /\ parsed.fn = "QuantityOf::sanitize" =>
          /\ parsed.ok
          /\ parsed.val = C_BaseOf(parsed.arg.unit, parsed.arg.amount)
          /\ Quantity_sanitize(Quantity_from(parsed.family, parsed.arg))
                = Quantity_from(parsed.family, parsed.val)

\* C19 witness: 212 °F sanitized to 100 °C.
C19_Witness ==
    /\ parsed.fn = "Quantity::sanitize"
    /\ parsed.arg = [unit |-> UnitOf("Temperature", "Farenheit"), amount |-> Frac(212, 1)]
    /\ parsed.val = [unit |-> UnitOf("Temperature", "Celsius"), amount |-> Frac(100, 1)]


\* C20: a quantity returned by sanitize is left as it is by sanitize, its
\* unit being sanitized to itself with the identity; sanitize returns the
\* quantity it is given when the unit is a base unit or Custom.
C20_SanitizeIdempotent ==
    /\ parsed.fn = "Quantity::sanitize" =>
          /\ Quantity_sanitize(parsed.val) = parsed.val
          /\ Unit_sanitize(parsed.val.unit) = Sanitized(parsed.val.unit, FnIdentity)
          /\ parsed.arg.unit.unit \in C_BaseUnits => parsed.val = parsed.arg
    /\ parsed.fn = "QuantityOf::sanitize" =>
          /\ QuantityOf_sanitize(parsed.family, parsed.val) = parsed.val
          /\ Family_sanitize(parsed.family, parsed.val.unit)
                = Sanitized(parsed.val.unit, FnIdentity)
          /\ parsed.arg.unit \in C_BaseUnits => parsed.val = parsed.arg

\* C20 witness: sanitize applied to the 100 °C that sanitize returned for
\* 212 °F.
C20_Witness ==
    /\ parsed.fn = "Quantity::sanitize"
    /\ parsed.arg = [unit |-> UnitOf("Temperature", "Celsius"), amount |-> Frac(100, 1)]
    /\ parsed.val = parsed.arg


\* The units of a family.
C_UnitsOf(family) ==
    IF family = "Nominal" THEN {"Nominal"} ELSE {row[2] : row \in FamilyTable(family)}

\* The units of a family that sanitize returns.
C_BasesOf(family) ==
    CASE family = "Mass" -> {"Gram", "Kilogram"}
      [] family = "Volume" -> {"Milliliter", "Centiliter", "Liter"}
      [] family = "Distance" -> {"Millimeter", "Centimeter"}
      [] family = "Temperature" -> {"Celsius"}
      [] family = "Time" -> {"Second", "Minute", "Hour"}
      [] OTHER -> {}

\* C21 as it is stated: the unit of a sanitized quantity is the same for all
\* the units of its family, Mass, Volume, Distance, Temperature or Time.
C21_OneBasePerFamily ==
    (parsed.fn = "Quantity::sanitize" /\ parsed.arg.unit.family \in C_TableFamilies) =>
        \A u2 \in C_UnitsOf(parsed.arg.unit.family) :
            Unit_sanitize(UnitOf(parsed.arg.unit.family, u2)).unit = parsed.val.unit

\* C21 amended: the unit of a sanitized quantity is a base unit of its
\* family, one of Gram and Kilogram for Mass, of Milliliter, Centiliter and
\* Liter for Volume, of Millimeter and Centimeter for Distance, of the three
\* units of Time, and Celsius for Temperature, the only family with a single
\* base unit; it does not depend on the amount.
C21_BaseOfFamily ==
    (parsed.fn = "Quantity::sanitize" /\ parsed.arg.unit.family \in C_TableFamilies) =>
        LET family == parsed.arg.unit.family
        IN  /\ parsed.val.unit.family = family
            /\ parsed.val.unit.unit \in C_BasesOf(family)
            /\ parsed.val.unit = Unit_sanitize(parsed.arg.unit).unit
            /\ {Unit_sanitize(UnitOf(family, u2)).unit.unit : u2 \in C_UnitsOf(family)}
                  = C_BasesOf(family)
            /\ family = "Temperature" =>
                  \A u2 \in C_UnitsOf(family) :
                      Unit_sanitize(UnitOf(family, u2)).unit = parsed.val.unit

\* C21 witness: pounds sanitized to grams, kilograms being left as they are.
C21_Witness ==
    /\ parsed.fn = "Quantity::sanitize"
    /\ parsed.arg.unit = UnitOf("Mass", "Pound")
    /\ parsed.val.unit = UnitOf("Mass", "Gram")
    /\ Unit_sanitize(UnitOf("Mass", "Kilogram")).unit = UnitOf("Mass", "Kilogram")


----------------------------------------------------------------------------
(* Claims about the helpers.                                               *)

\* C22: get_heading returns Ok iff the node is a heading of the given depth
\* with exactly one child, a text, equal to the expected text when one is
\* given; it returns the text of the heading, and an error in every other
\* case; the node is left as it was.
C22_GetHeading ==
    parsed.fn = "get_heading" =>
        LET node == parsed.arg.node
        IN  /\ parsed.ok <=>
                  /\ node.kind = "Heading"
                  /\ node.depth = parsed.arg.depth
                  /\ Len(node.children) = 1
                  /\ node.children[1].kind = "Text"
                  /\ parsed.arg.name.some => node.children[1].value = parsed.arg.name.v
            /\ parsed.ok => parsed.val = node.children[1].value /\ parsed.err = NoError
            /\ ~parsed.ok => parsed.val = <<>> /\ parsed.err # NoError
            /\ nodes[parsed.idx] = node

\* C22 witness: the text "Steps" returned for the heading "## Steps" when
\* that text is expected at depth 2.
C22_Witness ==
    /\ parsed.fn = "get_heading"
    /\ parsed.ok
    /\ parsed.arg.name = Some(StepsName)
    /\ parsed.arg.depth = 2
    /\ parsed.val = StepsName


\* C23: expect_children never panics: it returns Ok iff the node is of a
\* kind that has children and has exactly n of them, and an error value in
\* every other case, a node of a kind without children among them.
C23_ExpectChildren ==
    parsed.fn = "expect_children" =>
        LET node == parsed.arg.node
        IN  /\ ~parsed.panic
            /\ parsed.ok <=> (CanHaveChildren(node) /\ Len(node.children) = parsed.arg.num)
            /\ ~parsed.ok => parsed.err # NoError


\* The messages of the structural errors: a node of the wrong kind, a
\* heading of the wrong depth or text, a wrong number of children or of
\* nodes.
C_StructuralMessages ==
    {"expected list", "expected list item", "expected paragraph",
     "expected node to have ", "expected first node to be heading",
     "expected heading at depth ", "expected heading to have text child",
     "expected heading \"", "expected child to to be text",
     "ingredients must be list", "malformed ingredient group",
     "expected single list node for steps",
     "too many children to list item, expected at most 2",
     "unsupported element in step", "expected single children",
     "expected ingrdient ref to be text"}

\* C24: a structural error returned by Ingredients::parse or by
\* Instructions::from_mdast, steps included, on nodes that have a position
\* carries a position.
C24_StructuralPlace ==
    (parsed.fn \in {"Ingredients::parse", "Instructions::from_mdast"}
        /\ ~parsed.ok
        /\ parsed.err.msg[1] \in C_StructuralMessages
        /\ \A i \in 1..Len(nodes) : nodes[i].pos # NoPos) =>
            parsed.err.place # NoPlace


----------------------------------------------------------------------------
(* Claims about the metadata.                                              *)

\* A character a tag may hold after its '#'.
C_TagChar(c) == c \in Range(Lower) \cup Range(Upper) \cup Range(Digits) \cup {"/", "-", "_"}

\* A tag that starts with '#' and holds only such characters after it.
C_GoodTagText(tag) ==
    /\ Len(tag) >= 1
    /\ tag[1] = "#"
    /\ \A i \in 2..Len(tag) : C_TagChar(tag[i])

\* A value of tags that is a sequence of good tags.
C_GoodTags(value) ==
    /\ value.kind = "Sequence"
    /\ \A i \in 1..Len(value.items) :
          value.items[i].kind = "String" /\ C_GoodTagText(value.items[i].value)

\* C25: parse_tags accepts a value iff it is a sequence whose every element
\* is a string that starts with '#' and holds only alphanumerics, '/', '-'
\* and '_' after it; the tags stored are then the elements in the order of
\* the input, without their '#', duplicates kept; and a mapping whose tags
\* hold one invalid tag fails the whole Metadata::parse.
C25_Tags ==
    /\ parsed.fn = "Metadata::parse_tags" =>
          /\ parsed.ok <=> C_GoodTags(parsed.arg)
          /\ parsed.ok =>
                /\ Len(parsed.val) = Len(parsed.arg.items)
                /\ \A i \in 1..Len(parsed.val) :
                      <<"#">> \o parsed.val[i] = parsed.arg.items[i].value
    /\ parsed.fn = "Metadata::parse" =>
          \A d \in 1..Len(parsed.arg) :
              parsed.arg[d].kind = "Mapping" =>
                  \A e \in 1..Len(parsed.arg[d].items) :
                      /\ parsed.arg[d].items[e].key = YString(TAGS)
                      /\ ~C_GoodTags(parsed.arg[d].items[e].value)
                      => ~parsed.ok

\* Three tags are stored, the first and the last the same.
C25_Witness ==
    /\ parsed.fn = "Metadata::parse_tags"
    /\ parsed.ok
    /\ Len(parsed.val) = 3
    /\ parsed.val[1] = parsed.val[3]
    /\ parsed.val[2] # parsed.val[1]

\* The parse of a mapping fails on a tag with a '.', after a good tag.
C25_WitnessFails ==
    /\ parsed.fn = "Metadata::parse"
    /\ ~parsed.ok
    /\ parsed.err = MDErrorNone(<<"tag ">> \o Debug(<<"#", "t", ".">>)
                                    \o <<" contains forbidden characters">>)


\* The text without its spaces, and without its spaces and its '°'.
C_NoSpace(s) == SelectSeq(s, LAMBDA c : c # " ")
C_Bare(s) == SelectSeq(s, LAMBDA c : c \notin {" ", DEG})

\* The text trimmed, and what is left of it without one '°' at its end.
C_SizeBody(s) ==
    IF ends_with(trim(s), DEG) THEN Slice(trim(s), 1, Len(trim(s)) - 1) ELSE trim(s)

\* C26: SizeInfo::from_str accepts exactly the texts that, trimmed and
\* without one '°' at their end, parse as a QuantityOf of the Distance
\* family (units mm, cm, in); the modifier is the radial distance iff the
\* trimmed text ended with '°'; the spaces before and after the '°' do not
\* change the value; a unit that is no distance, or no unit, is an error;
\* and parse_size with an empty name is an error.
C26_SizeInfo ==
    /\ parsed.fn = "SizeInfo::from_str" =>
          LET q == QuantityOf_from_str("Distance", C_SizeBody(parsed.arg))
              packed == SizeInfo_from_str(C_NoSpace(parsed.arg))
          IN  /\ parsed.ok <=> q.ok
              /\ parsed.ok =>
                    /\ parsed.val.quantity = q.val
                    /\ parsed.val.quantity.unit \in {"Millimeter", "Centimeter", "Inches"}
                    /\ parsed.val.unit_mod.some <=> ends_with(trim(parsed.arg), DEG)
              /\ packed.ok = parsed.ok
              /\ packed.val = parsed.val
              /\ to_lowercase(C_UnitPart(C_Bare(parsed.arg)))
                    \notin {<<"m", "m">>, <<"c", "m">>, <<"i", "n">>} => ~parsed.ok
    /\ parsed.fn = "Metadata::parse_size" /\ parsed.arg.key = <<>> => ~parsed.ok
    /\ parsed.fn = "Metadata::parse" =>
          \A d \in 1..Len(parsed.arg) :
              parsed.arg[d].kind = "Mapping" =>
                  \A e \in 1..Len(parsed.arg[d].items) :
                      parsed.arg[d].items[e].key = YString(SIZE_PREFIX) => ~parsed.ok

\* "10cm °  " is read as ten centimeters of radial distance.
C26_Witness ==
    /\ parsed.fn = "SizeInfo::from_str"
    /\ Len(parsed.arg) > Len(C_NoSpace(parsed.arg))
    /\ C_NoSpace(parsed.arg) = <<"1", "0", "c", "m", DEG>>
    /\ parsed.ok
    /\ parsed.val = [quantity |-> [unit |-> "Centimeter", amount |-> Frac(10, 1)],
                     unit_mod |-> RadialDistance]


----------------------------------------------------------------------------
(* Claims about the sections of a recipe.                                  *)

\* "Steps" comes right after "Ingredients", itself right after the title.
C_EmptyIngredients(ns) ==
    /\ Len(ns) >= 3
    /\ C_TextHeading(ns[1], 1)
    /\ C_TextHeading(ns[2], 2)
    /\ ns[2].children[1].value = IngredientsName
    /\ C_TextHeading(ns[3], 2)
    /\ ns[3].children[1].value = StepsName

\* C27: after any call consume_to_next_heading(d) the cursor is at the end
\* of the nodes or on a heading of depth d, and the slice returned holds no
\* heading of depth d; the same call made again at once returns nothing and
\* does not move the cursor; and Recipe::from_mdast on a "Steps" heading
\* that comes right after the "Ingredients" heading gives no ingredients and
\* no error.
C27_SectionEnds ==
    /\ [](last.op = "consume_to_next_heading" =>
            /\ idx = Len(nodes)
                  \/ (nodes[idx + 1].kind = "Heading" /\ nodes[idx + 1].depth = last.depth)
            /\ \A k \in 1..Len(last.ret) :
                  ~(last.ret[k].kind = "Heading" /\ last.ret[k].depth = last.depth))
    /\ [][/\ last.op = "consume_to_next_heading"
          /\ last'.op = "consume_to_next_heading"
          /\ last'.depth = last.depth
          /\ last' # last
          => last'.ret = <<>> /\ idx' = idx]_vars
    /\ [](parsed.fn = "Recipe::from_mdast" /\ C_EmptyIngredients(nodes) =>
            parsed.ok /\ parsed.val.ingredients = <<>>)

\* The call was made twice on a heading of its depth, after nodes were taken.
C27_Witness ==
    /\ last.op = "consume_to_next_heading"
    /\ last.from = idx
    /\ last.from >= 1
    /\ idx < Len(nodes)
    /\ nodes[idx + 1].kind = "Heading"
    /\ nodes[idx + 1].depth = last.depth
    /\ last.ret = <<>>
    /\ Len(consumed) >= 1

\* A recipe whose "Steps" heading comes right after "Ingredients" is parsed.
C27_WitnessRecipe ==
    /\ parsed.fn = "Recipe::from_mdast"
    /\ C_EmptyIngredients(nodes)
    /\ parsed.ok
    /\ Len(nodes) > 3


----------------------------------------------------------------------------
(* Claims about the families of units.                                     *)

\* The families that have a table, and the tokens of a family's table.
C_TableFamilyNames == {"Mass", "Volume", "Distance", "Temperature", "Time"}
C_TokensOf(family) == {row[1] : row \in FamilyTable(family)}

\* Every order in which the six families may be tried.
C_Orders ==
    {[i \in 1..Len(FamilyOrder) |-> FamilyOrder[p[i]]] :
        p \in Permutations(1..Len(FamilyOrder))}

\* The families that accept the token.
C_Accepting(s) == {f \in Range(FamilyOrder) : Family_from_str(f, s).ok}

\* The unit of the first family of the order among those that accept the
\* token, the custom unit when none does.
C_UnitInOrder(order, accepting, s) ==
    IF accepting = {} THEN Custom(s)
    ELSE LET first == order[Min({i \in 1..Len(order) : order[i] \in accepting})]
         IN  UnitOf(first, Family_from_str(first, s).unit)

\* C28: the tables of Mass, Volume, Distance, Temperature and Time share no
\* token and none holds the empty token, so at most one family, Nominal
\* included, accepts a token, and whatever the order in which the families
\* are tried the unit is the one Unit::from_str gives.
C28_OneFamily ==
    /\ \A f, g \in C_TableFamilyNames : f # g => C_TokensOf(f) \cap C_TokensOf(g) = {}
    /\ \A f \in C_TableFamilyNames : <<>> \notin C_TokensOf(f)
    /\ parsed.fn = "Unit::from" =>
          LET accepting == C_Accepting(parsed.arg)
          IN  /\ Cardinality(accepting) <= 1
              /\ \A order \in C_Orders :
                    C_UnitInOrder(order, accepting, parsed.arg) = parsed.val

\* "HOURS" is read by the family tried last.
C28_Witness ==
    /\ parsed.fn = "Unit::from"
    /\ parsed.arg = <<"H", "O", "U", "R", "S">>
    /\ parsed.val = UnitOf("Time", "Hour")


\* C29: the parser of a family agrees with the general one: on every text
\* and for every family F, QuantityOf<F>::from_str returns Ok(unit u,
\* amount a) iff Quantity::from_str returns Ok with the unit F(u) and the
\* amount a; and when Quantity::from_str fails, QuantityOf<F>::from_str
\* fails for every F.
C29_FamilyAgrees ==
    parsed.fn = "QuantityOf::from_str" =>
        LET q == Quantity_from_str(parsed.arg)
        IN  /\ parsed.ok <=> (q.ok /\ q.val.unit.family = parsed.family)
            /\ parsed.ok =>
                  /\ q.val.unit = UnitOf(parsed.family, parsed.val.unit)
                  /\ q.val.amount = parsed.val.amount
            /\ ~q.ok => ~parsed.ok

\* " 1.5 H " is an hour and a half for the family Time.
C29_Witness ==
    /\ parsed.fn = "QuantityOf::from_str"
    /\ parsed.family = "Time"
    /\ parsed.arg = <<" ", "1", ".", "5", " ", "H", " ">>
    /\ parsed.ok
    /\ parsed.val = [unit |-> "Hour", amount |-> Frac(3, 2)]

\* The general parser accepts "3bunch", no family does.
C29_WitnessCustom ==
    /\ parsed.fn = "QuantityOf::from_str"
    /\ ~parsed.ok
    /\ Quantity_from_str(parsed.arg).ok
    /\ Quantity_from_str(parsed.arg).val.unit.family = "Custom"


----------------------------------------------------------------------------
(* Claims about the optional fields of an ingredient.                      *)

\* How many times the character occurs in the text.
C_Occurrences(s, c) == Cardinality({i \in 1..Len(s) : s[i] = c})

\* What stands after the first ',' of the text left in front of the info.
C_QuantitySegment(txt) ==
    LET rest == C_BeforeInfo(trim(txt))
    IN  IF find(rest, ",") < 0 THEN <<>> ELSE Slice(rest, find(rest, ",") + 2, Len(rest))

\* The alt_quantities are never Some of nothing, nor Some without quantity.
C_CanonicalIngredient(v) ==
    /\ v.alt_quantities.some => v.alt_quantities.v # <<>> /\ v.quantity.some
    /\ ~v.alt_quantities.some => v.alt_quantities = NoneSeq
    /\ ~v.quantity.some => v.quantity = NoneQuantity

\* C30: an Ingredient returned by Ingredient::from_str has a quantity iff the
\* text left in front of the info holds a ','; it has alt_quantities iff
\* the quantity segment holds a '/', and then as many as there are '/';
\* alt_quantities is never Some of an empty sequence nor Some without a
\* quantity.  An IngredientOptions returned by IngredientOptions::from_str
\* has alternatives iff the text holds a '|', and then as many as there are
\* '|', never Some of an empty sequence.
C30_CanonicalOptions ==
    /\ (ingr.called /\ ingr.ok) =>
          /\ ingr.val.quantity.some <=> contains(C_BeforeInfo(trim(text)), ",")
          /\ ingr.val.alt_quantities.some <=> contains(C_QuantitySegment(text), "/")
          /\ ingr.val.alt_quantities.some =>
                Len(ingr.val.alt_quantities.v) = C_Occurrences(C_QuantitySegment(text), "/")
          /\ C_CanonicalIngredient(ingr.val)
    /\ (opts.called /\ opts.ok) =>
          /\ opts.val.alternatives.some <=> contains(text, "|")
          /\ opts.val.alternatives.some =>
                Len(opts.val.alternatives.v) = C_Occurrences(text, "|")
          /\ opts.val.alternatives.some => opts.val.alternatives.v # <<>>
          /\ ~opts.val.alternatives.some => opts.val.alternatives = NoneSeq
          /\ C_CanonicalIngredient(opts.val.ingredient)
          /\ \A i \in 1..Len(opts.val.alternatives.v) :
                C_CanonicalIngredient(opts.val.alternatives.v[i])

\* Options returned with two alternatives, the primary with alt_quantities.
C30_Witness ==
    /\ opts.called
    /\ opts.ok
    /\ Len(opts.val.alternatives.v) = 2
    /\ opts.val.ingredient.alt_quantities.some

\* Options returned without alternatives, for an ingredient returned with
\* two alt_quantities.
C30_WitnessNone ==
    /\ opts.called
    /\ opts.ok
    /\ ~opts.val.alternatives.some
    /\ ingr.called
    /\ ingr.ok
    /\ Len(ingr.val.alt_quantities.v) = 2

\* An ingredient returned without quantity, with an info that holds a ','.
C30_WitnessInfo ==
    /\ ingr.called
    /\ ingr.ok
    /\ ingr.val.info.some
    /\ contains(ingr.val.info.v, ",")
    /\ ~ingr.val.quantity.some

====
